---- MODULE Spec2Model ----
(***************************************************************************)
(* A model of daptin's DbResource permission and relation-resolution code  *)
(* (package resource): reference-id translation, group-membership lookup,  *)
(* permission loading, IsUserActionAllowed, GetRowPermission,              *)
(* ResultToArrayOfMap and the BecomeAdmin bootstrap.                       *)
(*                                                                         *)
(* Conventions.                                                            *)
(*  - A Go string is a sequence of tokens (each token a TLA+ string); the   *)
(*    empty string is << >>.  Decimal digits are always single tokens, so   *)
(*    strconv.ParseInt and strings.Index are computed, not assumed.         *)
(*  - A Go interface{} value is a record [t, i, s]: t is the dynamic type   *)
(*    ("nil", "int64", "float64", "string", "other"), i the number, s the   *)
(*    string.                                                               *)
(*  - A table is a sequence of rows in insertion (created_at) order; every  *)
(*    row has the same columns; the integer 0 stands for SQL NULL in an     *)
(*    integer column (primary keys start at 1).                             *)
(***************************************************************************)
EXTENDS Integers, Sequences, FiniteSets, TLC

VARIABLES
    db,      \* the storage: table name -> sequence of rows
    res,     \* what the step just taken returned to its caller, if it returned
    procs,   \* the BecomeAdmin / CanBecomeAdmin callers and their position
    call,    \* the ResultToArrayOfMap call in progress
    hist     \* history: what the calls so far have returned and done

vars == <<db, res, procs, call, hist>>

----------------------------------------------------------------------------
(* Strings *)

S(tok) == <<tok>>

EmptyString == << >>

Digits == <<"0", "1", "2", "3", "4", "5", "6", "7", "8", "9">>

IsDigit(tok) == \E k \in 1..10 : Digits[k] = tok

DigitValue(tok) == (CHOOSE k \in 1..10 : Digits[k] = tok) - 1

RECURSIVE ParseDigits(_, _)
ParseDigits(str, acc) ==
    IF str = << >> THEN acc
    ELSE ParseDigits(Tail(str), acc * 10 + DigitValue(Head(str)))

\* strconv.ParseInt(s, 10, 64): the value and whether it failed; on a syntax
\* error the value is 0.  An optional leading sign is accepted.
ParseInt(str) ==
    LET neg == str # << >> /\ Head(str) = "-"
        signed == str # << >> /\ Head(str) \in {"-", "+"}
        body == IF signed THEN Tail(str) ELSE str
    IN  IF body = << >> \/ \E k \in 1..Len(body) : ~IsDigit(body[k])
        THEN [val |-> 0, err |-> TRUE]
        ELSE [val |-> IF neg THEN 0 - ParseDigits(body, 0) ELSE ParseDigits(body, 0),
              err |-> FALSE]

RECURSIVE FormatDigits(_)
FormatDigits(n) ==
    IF n < 10 THEN <<Digits[n + 1]>>
    ELSE Append(FormatDigits(n \div 10), Digits[(n % 10) + 1])

\* fmt.Sprintf("%d", n) for n >= 0
FormatInt(n) == FormatDigits(n)

\* strings.Index(s, "_has_"): the position of the infix, -1 when absent
IndexHas(str) ==
    IF \E k \in 1..Len(str) : str[k] = "_has_"
    THEN (CHOOSE k \in 1..Len(str) :
              str[k] = "_has_" /\ \A j \in 1..(k - 1) : str[j] # "_has_") - 1
    ELSE -1

----------------------------------------------------------------------------
(* interface{} values *)

Nil == [t |-> "nil", i |-> 0, s |-> << >>]

Int64(n) == [t |-> "int64", i |-> n, s |-> << >>]

Float64(n) == [t |-> "float64", i |-> n, s |-> << >>]

Str(str) == [t |-> "string", i |-> 0, s |-> str]

Other == [t |-> "other", i |-> 0, s |-> << >>]

----------------------------------------------------------------------------
(* Table and column names *)

USER_ACCOUNT_TABLE_NAME == S("user_account")

USERGROUP_TABLE == S("usergroup")

WORLD_TABLE == S("world")

ACTION_TABLE == S("action")

\* fmt.Sprintf("%s_%s_id_has_usergroup_usergroup_id", objType, objType)
JoinTableName(objType) ==
    objType \o S("_") \o objType \o S("_id") \o S("_has_") \o S("usergroup_usergroup_id")

USER_GROUP_JOIN == JoinTableName(USER_ACCOUNT_TABLE_NAME)

----------------------------------------------------------------------------
(* Rows *)

Row(id, ref, owner, perm, name) ==
    [id |-> id, reference_id |-> ref, user_account_id |-> owner,
     permission |-> perm, name |-> name,
     subject_id |-> 0, usergroup_id |-> 0, default_permission |-> 0]

\* a row of {type}_{type}_id_has_usergroup_usergroup_id
JoinRow(id, ref, subject, group, perm) ==
    [id |-> id, reference_id |-> ref, user_account_id |-> 0,
     permission |-> perm, name |-> << >>,
     subject_id |-> subject, usergroup_id |-> group, default_permission |-> 0]

\* the rows of a table; a table the storage does not have has no rows
TableRows(typeName) == IF typeName \in DOMAIN db THEN db[typeName] ELSE << >>

\* the positions of the rows that satisfy Test, in table order
Matching(rows, Test(_)) == {k \in 1..Len(rows) : Test(rows[k])}

Min(set) == CHOOSE x \in set : \A y \in set : x <= y

Max(set) == CHOOSE x \in set : \A y \in set : x >= y

\* QueryRowx: the first row of the result, when there is one
FirstRow(rows, Test(_)) == rows[Min(Matching(rows, Test))]

\* the subsequence of the rows that satisfy Test
RECURSIVE PickRows(_, _)
PickRows(rows, positions) ==
    IF positions = {} THEN << >>
    ELSE LET k == Min(positions)
         IN  <<rows[k]>> \o PickRows(rows, positions \ {k})

SelectRows(rows, Test(_)) == PickRows(rows, Matching(rows, Test))

NextId(rows) == IF rows = << >> THEN 1 ELSE Max({rows[k].id : k \in 1..Len(rows)}) + 1

----------------------------------------------------------------------------
(* ReferenceIdTranslator *)

GetIdToReferenceId_Remembered(typeName, id) ==
    LET last == IF res = [op |-> "none"] THEN hist ELSE res
    IN  IF last.op = "GetIdToReferenceId" /\ last.type = typeName /\ last.arg = id
        THEN last.out
        ELSE LET rows == TableRows(typeName)
                 Hit(r) == r.id = id
             IN  IF Matching(rows, Hit) = {} THEN [val |-> << >>, err |-> TRUE]
                 ELSE [val |-> FirstRow(rows, Hit).reference_id, err |-> FALSE]

\* select reference_id from typeName where id = ?; Scan fails on no row
GetIdToReferenceId(typeName, id) ==
    LET rows == TableRows(typeName)
        Hit(r) == r.id = id
    IN  IF Matching(rows, Hit) = {} THEN [val |-> << >>, err |-> TRUE]
        ELSE [val |-> FirstRow(rows, Hit).reference_id, err |-> FALSE]

GetReferenceIdToId_AnyTable(typeName, referenceId) ==
    LET rows == TableRows(WORLD_TABLE)
        Hit(r) == r.reference_id = referenceId
    IN  IF Matching(rows, Hit) = {} THEN [val |-> 0, err |-> TRUE]
        ELSE [val |-> FirstRow(rows, Hit).id, err |-> FALSE]

\* select id from typeName where reference_id = ?; Scan fails on no row
GetReferenceIdToId(typeName, referenceId) ==
    LET rows == TableRows(typeName)
        Hit(r) == r.reference_id = referenceId
    IN  IF Matching(rows, Hit) = {} THEN [val |-> 0, err |-> TRUE]
        ELSE [val |-> FirstRow(rows, Hit).id, err |-> FALSE]

----------------------------------------------------------------------------
(* auth.AuthPermission: three scopes of seven capability bits each *)

Capabilities == <<"Peek", "Read", "Create", "Update", "Delete", "Execute", "Refer">>

Scopes == <<"Guest", "User", "Group">>

IndexOf(seq, x) == CHOOSE k \in 1..Len(seq) : seq[k] = x

\* the bit of one capability in one scope: GuestPeek is bit 1, GuestRead bit 2,
\* ..., UserPeek bit 8, ..., GroupRefer bit 21
Bit(scope, cap) == 2 ^ (7 * (IndexOf(Scopes, scope) - 1) + IndexOf(Capabilities, cap))

\* p & bit == bit, for a single bit
HasBit(p, bit) == (p \div bit) % 2 = 1

\* {Guest,User,Group}CRUD
CRUD(scope) ==
    Bit(scope, "Peek") + Bit(scope, "Read") + Bit(scope, "Create")
        + Bit(scope, "Update") + Bit(scope, "Delete")

DEFAULT_PERMISSION ==
    Bit("Guest", "Peek") + Bit("Guest", "Execute")
        + CRUD("User") + Bit("User", "Execute")
        + CRUD("Group") + Bit("Group", "Execute")

\* auth.GroupPermission
GroupPermission(group, object, relation, perm) ==
    [GroupReferenceId |-> group, ObjectReferenceId |-> object,
     RelationReferenceId |-> relation, Permission |-> perm]

\* PermissionInstance
PermissionInstance(user, groups, perm) ==
    [UserId |-> user, UserGroupId |-> groups, Permission |-> perm]

\* var perm PermissionInstance: no owner, no groups, bitmask 0
EmptyPermission == PermissionInstance(<< >>, << >>, 0)

\* one of the caller's groups against the object's memberships, in order
RECURSIVE GroupGrants(_, _, _)
GroupGrants(uGroup, oGroups, bit) ==
    IF oGroups = << >> THEN FALSE
    ELSE IF uGroup.GroupReferenceId = Head(oGroups).GroupReferenceId
            /\ HasBit(Head(oGroups).Permission, bit)
         THEN TRUE
         ELSE GroupGrants(uGroup, Tail(oGroups), bit)

RECURSIVE AnyGroupGrants(_, _, _)
AnyGroupGrants(uGroups, oGroups, bit) ==
    IF uGroups = << >> THEN FALSE
    ELSE IF GroupGrants(Head(uGroups), oGroups, bit) THEN TRUE
         ELSE AnyGroupGrants(Tail(uGroups), oGroups, bit)

\* PermissionInstance.CanPeek / CanRead / CanCreate / CanUpdate / CanDelete /
\* CanExecute / CanRefer: the three tiers are tried in turn, any one grants
Can(cap, perm, userId, userGroups) ==
    IF userId = perm.UserId /\ HasBit(perm.Permission, Bit("User", cap)) THEN TRUE
    ELSE IF AnyGroupGrants(userGroups, perm.UserGroupId, Bit("Group", cap)) THEN TRUE
    ELSE HasBit(perm.Permission, Bit("Guest", cap))

CanExecute(perm, userId, userGroups) == Can("Execute", perm, userId, userGroups)

----------------------------------------------------------------------------
(* GroupMembershipResolver and the permission loaders *)

\* dr.Cruds["usergroup"].model.GetDefaultPermission()
UsergroupDefaultPermission == CRUD("Group") + Bit("Group", "Execute")

\* a query on a table the storage cannot serve fails
QueryFails(typeName) == typeName \notin DOMAIN db

\* the column "{objType}_id" of a join row
SubjectId(objType, row) ==
    IF objType = USER_ACCOUNT_TABLE_NAME THEN row.user_account_id ELSE row.subject_id

\* usergroup ug join {type}_{type}_id_has_usergroup_usergroup_id uug
\*   on uug.usergroup_id = ug.id where uug.{type}_id = objectId
RECURSIVE ScanGroups(_, _)
ScanGroups(joined, refId) ==
    IF joined = << >> THEN << >>
    ELSE LET uug == Head(joined)
             ug == FirstRow(TableRows(USERGROUP_TABLE), LAMBDA g : g.id = uug.usergroup_id)
         IN  <<GroupPermission(ug.reference_id, refId, uug.reference_id, uug.permission)>>
                 \o ScanGroups(Tail(joined), refId)

GetObjectGroupsByObjectId_ViaJoin(objType, objectId) ==
    ScanGroups(
        SelectRows(TableRows(JoinTableName(objType)),
            LAMBDA uug : /\ SubjectId(objType, uug) = objectId
                         /\ Matching(TableRows(USERGROUP_TABLE),
                                LAMBDA g : g.id = uug.usergroup_id) # {}),
        GetIdToReferenceId(objType, objectId).val)

GetObjectGroupsByObjectId_GroupMask(objType, objectId) ==
    LET refId == GetIdToReferenceId(objType, objectId)
        joined == SelectRows(TableRows(JoinTableName(objType)),
                      LAMBDA uug : /\ SubjectId(objType, uug) = objectId
                                   /\ Matching(TableRows(USERGROUP_TABLE),
                                          LAMBDA g : g.id = uug.usergroup_id) # {})
    IN  [k \in 1..Len(joined) |->
            GroupPermission(
                FirstRow(TableRows(USERGROUP_TABLE),
                         LAMBDA g : g.id = joined[k].usergroup_id).reference_id,
                refId.val, joined[k].reference_id,
                FirstRow(TableRows(USERGROUP_TABLE),
                         LAMBDA g : g.id = joined[k].usergroup_id).permission)]

\* the usergroup branch without the test of the translation error
GetObjectGroupsByObjectId_Unchecked(objType, objectId) ==
    LET refId == GetIdToReferenceId(objType, objectId)
    IN  IF objType = USERGROUP_TABLE
        THEN <<GroupPermission(refId.val, refId.val, refId.val,
                               UsergroupDefaultPermission)>>
        ELSE GetObjectGroupsByObjectId_ViaJoin(objType, objectId)

GetObjectGroupsByObjectId(objType, objectId) ==
    LET refId == GetIdToReferenceId(objType, objectId)
    IN  IF objType = USERGROUP_TABLE
        THEN IF refId.err THEN << >>
             ELSE <<GroupPermission(refId.val, refId.val, refId.val,
                                    UsergroupDefaultPermission)>>
        ELSE IF QueryFails(JoinTableName(objType)) \/ QueryFails(USERGROUP_TABLE)
        THEN << >>
        ELSE ScanGroups(
                 SelectRows(TableRows(JoinTableName(objType)),
                     LAMBDA uug : /\ SubjectId(objType, uug) = objectId
                                  /\ Matching(TableRows(USERGROUP_TABLE),
                                         LAMBDA g : g.id = uug.usergroup_id) # {}),
                 refId.val)

\* the value of column colName of a row
ColumnValue(row, colName) ==
    CASE colName \in {"table_name", "action_name", "name"} -> row.name
      [] colName = "reference_id" -> row.reference_id
      [] colName = "id" -> row.id

GetObjectPermissionByWhereClause_Open(objectType, colName, colValue) ==
    LET rows == TableRows(objectType)
        Hit(r) == ColumnValue(r, colName) = colValue
    IN  IF QueryFails(objectType) \/ Matching(rows, Hit) = {}
        THEN PermissionInstance(<< >>, << >>, DEFAULT_PERMISSION)
        ELSE LET m == FirstRow(rows, Hit)
                 user == GetIdToReferenceId(USER_ACCOUNT_TABLE_NAME, m.user_account_id)
             IN  PermissionInstance(
                     IF m.user_account_id # 0 /\ ~user.err THEN user.val ELSE << >>,
                     GetObjectGroupsByObjectId(objectType, m.id),
                     m.permission)

GetObjectPermissionByWhereClause(objectType, colName, colValue) ==
    LET rows == TableRows(objectType)
        Hit(r) == ColumnValue(r, colName) = colValue
    IN  IF QueryFails(objectType) \/ Matching(rows, Hit) = {}
        THEN EmptyPermission
        ELSE LET m == FirstRow(rows, Hit)
                 user == GetIdToReferenceId(USER_ACCOUNT_TABLE_NAME, m.user_account_id)
             IN  PermissionInstance(
                     IF m.user_account_id # 0 /\ ~user.err THEN user.val ELSE << >>,
                     GetObjectGroupsByObjectId(objectType, m.id),
                     m.permission)

IsUserActionAllowed_Either(userReferenceId, userGroups, typeName, actionName) ==
    LET permission == GetObjectPermissionByWhereClause(WORLD_TABLE, "table_name", typeName)
        actionPermission ==
            GetObjectPermissionByWhereClause(ACTION_TABLE, "action_name", actionName)
    IN  \/ CanExecute(permission, userReferenceId, userGroups)
        \/ CanExecute(actionPermission, userReferenceId, userGroups)

IsUserActionAllowed(userReferenceId, userGroups, typeName, actionName) ==
    LET permission == GetObjectPermissionByWhereClause(WORLD_TABLE, "table_name", typeName)
        actionPermission ==
            GetObjectPermissionByWhereClause(ACTION_TABLE, "action_name", actionName)
        canExecuteOnType == CanExecute(permission, userReferenceId, userGroups)
        canExecuteAction == CanExecute(actionPermission, userReferenceId, userGroups)
    IN  canExecuteOnType /\ canExecuteAction

----------------------------------------------------------------------------
(* AdministratorBootstrap: the queries *)

\* select id from usergroup where name = ?; Scan fails on no row
UserGroupNameToId(groupName) ==
    LET rows == TableRows(USERGROUP_TABLE)
        Hit(r) == r.name = groupName
    IN  IF Matching(rows, Hit) = {} THEN [val |-> 0, err |-> TRUE]
        ELSE [val |-> FirstRow(rows, Hit).id, err |-> FALSE]

\* select u.reference_id from user_account_user_account_id_has_usergroup_usergroup_id uu
\*   left join user_account u on uu.user_account_id = u.id
\*   where uu.usergroup_id = ? order by uu.created_at limit 1
\* Scan fails, and "" is returned, on no row and on a NULL reference id
GetUserIdByUsergroupId(usergroupId) ==
    LET uus == TableRows(USER_GROUP_JOIN)
        Hit(r) == r.usergroup_id = usergroupId
    IN  IF Matching(uus, Hit) = {} THEN << >>
        ELSE LET u == GetIdToReferenceId(USER_ACCOUNT_TABLE_NAME,
                                         FirstRow(uus, Hit).user_account_id)
             IN  IF u.err THEN << >> ELSE u.val

\* the reference id of a user who is a member of the "administrators" group,
\* "" when there is none
GetAdminReferenceId ==
    LET group == UserGroupNameToId(S("administrators"))
    IN  IF group.err THEN << >> ELSE GetUserIdByUsergroupId(group.val)

\* a guard that looks for the administrators group instead of its members
CanBecomeAdmin_GroupOnly == ~UserGroupNameToId(S("administrators")).err

CanBecomeAdmin == GetAdminReferenceId = << >>

----------------------------------------------------------------------------
(* Calls that are not in progress *)

NoRes == [op |-> "none"]

NoProcs == << >>

NoCall == [status |-> "none"]

NoHist == [calls |-> 0]

----------------------------------------------------------------------------
(* Permission checks against a stored world row and action row *)

PermMaxMemberships == 1

PermUsers == <<Row(1, S("u1"), 0, 0, S("one")), Row(2, S("u2"), 0, 0, S("two"))>>

PermGroups == <<Row(1, S("g1"), 0, 0, S("first")), Row(2, S("g2"), 0, 0, S("second"))>>

\* NULL, an existing user, a user that no longer exists
PermOwners == {0, 1, 3}

PermObjectMasks ==
    {0, Bit("Guest", "Read"), Bit("Guest", "Execute"),
     Bit("User", "Execute") + Bit("User", "Update"), Bit("Group", "Execute")}

PermJoinMasks ==
    {Bit("Group", "Read") + Bit("Group", "Update"), Bit("Group", "Execute"),
     Bit("Guest", "Execute") + Bit("User", "Execute")}

\* the membership rows of object 1: at most PermMaxMemberships of them
PermMemberships(groupIds, masks) ==
    UNION {
        {[k \in 1..n |-> JoinRow(k, S("rel") \o FormatInt(k), 1, gs[k], ms[k])] :
            gs \in [1..n -> groupIds], ms \in [1..n -> masks]} :
        n \in 0..PermMaxMemberships}

\* callers are signed-in users: their reference id is never empty
PermCallers == {S("u1"), S("u2")}

PermCallerGroups ==
    {<< >>,
     <<GroupPermission(S("g1"), << >>, << >>, 0)>>,
     <<GroupPermission(S("g2"), << >>, << >>, 0),
       GroupPermission(S("g1"), << >>, << >>, 0)>>}

PermTypeNames == {S("todo"), S("nosuchtable")}

PermActionNames == {S("run"), S("nosuchaction")}

PermAllTables ==
    {USER_ACCOUNT_TABLE_NAME, USERGROUP_TABLE, WORLD_TABLE, ACTION_TABLE,
     JoinTableName(WORLD_TABLE), JoinTableName(ACTION_TABLE)}

PermInit ==
    /\ \E down \in {{}, {WORLD_TABLE}, {ACTION_TABLE}, {JoinTableName(WORLD_TABLE)}},
          world \in {<< >>} \cup {<<Row(1, S("w1"), o, m, S("todo"))>> :
                                      o \in PermOwners, m \in PermObjectMasks},
          worldGroups \in PermMemberships({1, 2}, PermJoinMasks),
          action \in {<< >>} \cup {<<Row(1, S("a1"), o, m, S("run"))>> :
                                       o \in {1},
                                       m \in {0, Bit("Guest", "Execute"),
                                               Bit("User", "Execute")}},
          actionGroups \in PermMemberships({1}, {Bit("Group", "Execute")}) :
          /\ world = << >> => worldGroups = << >>
          /\ action = << >> => actionGroups = << >>
          /\ db = [t \in PermAllTables \ down |->
                      CASE t = USER_ACCOUNT_TABLE_NAME -> PermUsers
                        [] t = USERGROUP_TABLE -> PermGroups
                        [] t = WORLD_TABLE -> world
                        [] t = ACTION_TABLE -> action
                        [] t = JoinTableName(WORLD_TABLE) -> worldGroups
                        [] t = JoinTableName(ACTION_TABLE) -> actionGroups]
    /\ res = NoRes
    /\ procs = NoProcs
    /\ call = NoCall
    /\ hist = NoHist

\* the permission instance of a type's world row is loaded and one capability
\* is evaluated for a caller
PermCheckCapability(cap, user, groups, typeName) ==
    LET perm == GetObjectPermissionByWhereClause(WORLD_TABLE, "table_name", typeName)
    IN  /\ res = NoRes
        /\ res' = [op |-> "Can", cap |-> cap, user |-> user, groups |-> groups,
                   typeName |-> typeName, perm |-> perm,
                   granted |-> Can(cap, perm, user, groups)]
        /\ UNCHANGED <<db, procs, call, hist>>

PermIsUserActionAllowed(user, groups, typeName, actionName) ==
    /\ res = NoRes
    /\ res' = [op |-> "IsUserActionAllowed", user |-> user, groups |-> groups,
               typeName |-> typeName, actionName |-> actionName,
               allowed |-> IsUserActionAllowed(user, groups, typeName, actionName)]
    /\ UNCHANGED <<db, procs, call, hist>>

PermNext ==
    \/ \E cap \in {Capabilities[k] : k \in 1..Len(Capabilities)},
          user \in PermCallers, groups \in PermCallerGroups, typeName \in PermTypeNames :
          PermCheckCapability(cap, user, groups, typeName)
    \/ \E user \in PermCallers, groups \in PermCallerGroups,
          typeName \in PermTypeNames, actionName \in PermActionNames :
          PermIsUserActionAllowed(user, groups, typeName, actionName)

PermSpec == PermInit /\ [][PermNext]_vars

\* the stored row that a lookup by name finds, when there is one
Stored(objectType, name) ==
    Matching(TableRows(objectType), LAMBDA r : r.name = name)

\* some applicable tier of the stored object has the capability's bit set:
\* the Guest bit of the row, the User bit of the row when the caller is the
\* row's owner, or the Group bit of a membership row of the object whose group
\* is one of the caller's
TierGrants(objectType, name, cap, user, groups) ==
    /\ objectType \in DOMAIN db
    /\ Stored(objectType, name) # {}
    /\ LET m == db[objectType][Min(Stored(objectType, name))]
           users == TableRows(USER_ACCOUNT_TABLE_NAME)
           ugs == TableRows(USERGROUP_TABLE)
           joins == TableRows(JoinTableName(objectType))
       IN  \/ HasBit(m.permission, Bit("Guest", cap))
           \/ /\ HasBit(m.permission, Bit("User", cap))
              /\ \E u \in 1..Len(users) :
                     users[u].id = m.user_account_id /\ users[u].reference_id = user
           \/ \E j \in 1..Len(joins), g \in 1..Len(ugs), k \in 1..Len(groups) :
                  /\ joins[j].subject_id = m.id
                  /\ joins[j].usergroup_id = ugs[g].id
                  /\ groups[k].GroupReferenceId = ugs[g].reference_id
                  /\ HasBit(joins[j].permission, Bit("Group", cap))

\* owner u1, membership (g1, Read|Update), Guest Read
PermScenario ==
    /\ DOMAIN db = PermAllTables
    /\ db[WORLD_TABLE] = <<Row(1, S("w1"), 1, Bit("Guest", "Read"), S("todo"))>>
    /\ db[JoinTableName(WORLD_TABLE)] =
           <<JoinRow(1, S("rel") \o FormatInt(1), 1, 1,
                     Bit("Group", "Read") + Bit("Group", "Update"))>>

InG1 == <<GroupPermission(S("g1"), << >>, << >>, 0)>>

\* C1: a capability is granted if and only if at least one applicable tier
\* has it set (Guest bits, User bits for the owner, Group bits of a membership
\* whose group the caller is in), and is denied otherwise; for the object
\* owned by u1 with membership (g1, Read|Update) and Guest Read, u2 in g1 may
\* Update, a caller in no group may not Update and may Read.
C1_TierOr ==
    res.op = "Can" =>
        /\ res.granted = TierGrants(WORLD_TABLE, res.typeName, res.cap, res.user, res.groups)
        /\ (PermScenario /\ res.typeName = S("todo") /\ res.user = S("u2")) =>
               /\ (res.groups = InG1 /\ res.cap = "Update") => res.granted
               /\ (res.groups = << >> /\ res.cap = "Update") => ~res.granted
               /\ (res.groups = << >> /\ res.cap = "Read") => res.granted

\* u2, not the owner, is granted Update through its group g1 alone
C1_Witness ==
    /\ PermScenario
    /\ res.op = "Can" /\ res.typeName = S("todo") /\ res.cap = "Update"
    /\ res.user = S("u2") /\ res.groups = InG1
    /\ res.granted

\* C2: IsUserActionAllowed is true exactly when Execute is granted on the
\* type's world row and Execute is granted on the action row.
C2_BothGates ==
    res.op = "IsUserActionAllowed" =>
        res.allowed =
            (/\ TierGrants(WORLD_TABLE, res.typeName, "Execute", res.user, res.groups)
             /\ TierGrants(ACTION_TABLE, res.actionName, "Execute", res.user, res.groups))

\* the type grants Execute, the action does not, and the call is refused
C2_Witness ==
    /\ res.op = "IsUserActionAllowed"
    /\ TierGrants(WORLD_TABLE, res.typeName, "Execute", res.user, res.groups)
    /\ Stored(ACTION_TABLE, res.actionName) # {}
    /\ ~TierGrants(ACTION_TABLE, res.actionName, "Execute", res.user, res.groups)
    /\ ~res.allowed

\* the row a lookup by name would load is absent, or its table cannot be read
Absent(objectType, name) ==
    objectType \notin DOMAIN db \/ Stored(objectType, name) = {}

\* C3: when the world row of the type or the action row does not exist (or
\* its lookup fails), the loaded permission instance is the empty one and
\* IsUserActionAllowed returns false for every caller.
C3_AbsentDenies ==
    /\ (res.op = "Can" /\ Absent(WORLD_TABLE, res.typeName)) =>
           res.perm = EmptyPermission /\ ~res.granted
    /\ (res.op = "IsUserActionAllowed"
           /\ (Absent(WORLD_TABLE, res.typeName) \/ Absent(ACTION_TABLE, res.actionName))) =>
           ~res.allowed

\* the type grants Execute to the caller, but the action row does not exist
C3_Witness ==
    /\ res.op = "IsUserActionAllowed"
    /\ TierGrants(WORLD_TABLE, res.typeName, "Execute", res.user, res.groups)
    /\ ACTION_TABLE \in DOMAIN db
    /\ Stored(ACTION_TABLE, res.actionName) = {}
    /\ ~res.allowed

----------------------------------------------------------------------------
(* AdministratorBootstrap: BecomeAdmin, one storage statement per step *)

AdminMaxCalls == 2

\* the concurrent callers: each is the session of one user
AdminProcs == {"p1", "p2"}

AdminUserId(p) == IF p = "p1" THEN 1 ELSE 2

\* dbResource.Cruds, and the tables whose model HasColumn(user_account_id)
AdminCruds == {WORLD_TABLE, ACTION_TABLE, USER_GROUP_JOIN, S("plain")}

HasOwnerColumn(typeName) == typeName \in {WORLD_TABLE, ACTION_TABLE, USER_GROUP_JOIN}

\* table_name like '%_audit'
IsAuditName(name) == name # << >> /\ name[Len(name)] = "_audit"

\* audit tables opened like every other table
AuditPermission_Default == DEFAULT_PERMISSION

AuditPermission ==
    Bit("Guest", "Create") + Bit("User", "Create") + Bit("Group", "Create")

AuditDefaultPermission ==
    Bit("Guest", "Read") + Bit("User", "Read") + Bit("Group", "Read")

ActionPermission ==
    Bit("User", "Read") + Bit("User", "Execute") + CRUD("Group")
        + Bit("Group", "Execute") + Bit("Group", "Refer")

SigninPermission ==
    Bit("Guest", "Peek") + Bit("Guest", "Execute") + Bit("User", "Read")
        + Bit("User", "Execute") + Bit("Group", "Read") + Bit("Group", "Execute")

Idle == [pc |-> "idle", userId |-> 0, pending |-> {}, adminUsergroupId |-> 0]

AdminInit ==
    /\ db = [t \in AdminCruds \cup {USER_ACCOUNT_TABLE_NAME, USERGROUP_TABLE} |->
                CASE t = USER_ACCOUNT_TABLE_NAME ->
                         <<Row(1, S("u1"), 0, 0, S("one")), Row(2, S("u2"), 0, 0, S("two"))>>
                  [] t = USERGROUP_TABLE ->
                         <<Row(1, S("g1"), 0, 0, S("users")),
                           Row(2, S("g2"), 0, 0, S("administrators"))>>
                  [] t = USER_GROUP_JOIN ->
                         <<[JoinRow(1, S("rel") \o FormatInt(1), 0, 1, 0)
                               EXCEPT !.user_account_id = 1]>>
                  [] t = WORLD_TABLE ->
                         <<Row(1, S("w1"), 0, 0, S("todo")),
                           Row(2, S("w2"), 0, 0, <<"todo", "_audit">>)>>
                  [] t = ACTION_TABLE ->
                         <<Row(1, S("a1"), 0, 0, S("signin")),
                           Row(2, S("a2"), 0, 0, S("run"))>>
                  [] t = S("plain") -> <<Row(1, S("p1"), 0, 0, << >>)>>]
    /\ res = NoRes
    /\ procs = [p \in AdminProcs |-> Idle]
    /\ call = NoCall
    /\ hist = [calls |-> 0, returnedTrue |-> 0]

\* update typeName set ... (every row that satisfies Where)
UpdateRows(typeName, Where(_), Set(_)) ==
    [db EXCEPT ![typeName] =
        [k \in 1..Len(@) |-> IF Where(@[k]) THEN Set(@[k]) ELSE @[k]]]

\* a statement is executed; it either takes effect or fails and changes nothing
Exec(effect) == db' = effect \/ db' = db

\* a caller asks CanBecomeAdmin
AdminCanBecomeAdmin(p) ==
    /\ procs[p].pc = "idle"
    /\ res' = [op |-> "CanBecomeAdmin", out |-> CanBecomeAdmin,
               promoted |-> hist.returnedTrue > 0,
               quiet |-> \A q \in AdminProcs : procs[q].pc = "idle"]
    /\ UNCHANGED <<db, procs, call, hist>>

\* BecomeAdmin(userId): the CanBecomeAdmin guard
AdminBegin(p, userId) ==
    /\ procs[p].pc = "idle"
    /\ hist.calls < AdminMaxCalls
    /\ hist' = [hist EXCEPT !.calls = @ + 1]
    /\ IF ~CanBecomeAdmin
       THEN /\ res' = [op |-> "BecomeAdmin", userId |-> userId, out |-> FALSE]
            /\ UNCHANGED procs
       ELSE /\ procs' = [procs EXCEPT ![p] =
                            [Idle EXCEPT !.pc = "cruds", !.userId = userId,
                                         !.pending = AdminCruds]]
            /\ res' = NoRes
    /\ UNCHANGED <<db, call>>

\* one iteration of "for _, crud := range dbResource.Cruds", in any order
AdminOwnTable(p, crud) ==
    /\ procs[p].pc = "cruds"
    /\ crud \in procs[p].pending
    /\ procs' = [procs EXCEPT ![p].pending = @ \ {crud},
                              ![p].pc = IF procs[p].pending = {crud}
                                        THEN "group" ELSE "cruds"]
    /\ IF crud # USER_GROUP_JOIN /\ HasOwnerColumn(crud)
       THEN Exec(UpdateRows(crud, LAMBDA r : TRUE,
                     LAMBDA r : [r EXCEPT !.user_account_id = procs[p].userId,
                                          !.permission = DEFAULT_PERMISSION]))
       ELSE UNCHANGED db
    /\ res' = NoRes
    /\ UNCHANGED <<call, hist>>

\* adminUsergroupId, err := dbResource.UserGroupNameToId("administrators");
\* the error is dropped and the id is then 0
AdminFindGroup(p) ==
    /\ procs[p].pc = "group"
    /\ \E found \in {UserGroupNameToId(S("administrators")).val, 0} :
          procs' = [procs EXCEPT ![p].pc = "member", ![p].adminUsergroupId = found]
    /\ res' = NoRes
    /\ UNCHANGED <<db, call, hist>>

\* insert into user_account_user_account_id_has_usergroup_usergroup_id
AdminInsertMember(p) ==
    /\ procs[p].pc = "member"
    /\ procs' = [procs EXCEPT ![p].pc = "world"]
    /\ LET rows == db[USER_GROUP_JOIN]
           row == [JoinRow(NextId(rows), S("rel") \o FormatInt(NextId(rows)),
                           0, procs[p].adminUsergroupId, DEFAULT_PERMISSION)
                       EXCEPT !.user_account_id = procs[p].userId]
       IN  Exec([db EXCEPT ![USER_GROUP_JOIN] = Append(@, row)])
    /\ res' = NoRes
    /\ UNCHANGED <<call, hist>>

\* update world ... where table_name not like '%_audit'
AdminOpenWorld(p) ==
    /\ procs[p].pc = "world"
    /\ procs' = [procs EXCEPT ![p].pc = "audit"]
    /\ Exec(UpdateRows(WORLD_TABLE, LAMBDA r : ~IsAuditName(r.name),
                LAMBDA r : [r EXCEPT !.permission = DEFAULT_PERMISSION,
                                     !.default_permission = DEFAULT_PERMISSION]))
    /\ res' = NoRes
    /\ UNCHANGED <<call, hist>>

\* update world ... where table_name like '%_audit'
AdminNarrowAudit(p) ==
    /\ procs[p].pc = "audit"
    /\ procs' = [procs EXCEPT ![p].pc = "action"]
    /\ Exec(UpdateRows(WORLD_TABLE, LAMBDA r : IsAuditName(r.name),
                LAMBDA r : [r EXCEPT !.permission = AuditPermission,
                                     !.default_permission = AuditDefaultPermission]))
    /\ res' = NoRes
    /\ UNCHANGED <<call, hist>>

\* update action set permission = ?
AdminSetActions(p) ==
    /\ procs[p].pc = "action"
    /\ procs' = [procs EXCEPT ![p].pc = "signin"]
    /\ Exec(UpdateRows(ACTION_TABLE, LAMBDA r : TRUE,
                LAMBDA r : [r EXCEPT !.permission = ActionPermission]))
    /\ res' = NoRes
    /\ UNCHANGED <<call, hist>>

\* update action set permission = ? where action_name in ('signin'); return true
AdminSetSignin(p) ==
    /\ procs[p].pc = "signin"
    /\ procs' = [procs EXCEPT ![p] = Idle]
    /\ Exec(UpdateRows(ACTION_TABLE, LAMBDA r : r.name = S("signin"),
                LAMBDA r : [r EXCEPT !.permission = SigninPermission]))
    /\ res' = [op |-> "BecomeAdmin", userId |-> procs[p].userId, out |-> TRUE]
    /\ hist' = [hist EXCEPT !.returnedTrue = @ + 1]
    /\ UNCHANGED call

AdminNext ==
    \E p \in AdminProcs :
        \/ AdminCanBecomeAdmin(p)
        \/ AdminBegin(p, AdminUserId(p))
        \/ \E crud \in AdminCruds : AdminOwnTable(p, crud)
        \/ AdminFindGroup(p)
        \/ AdminInsertMember(p)
        \/ AdminOpenWorld(p)
        \/ AdminNarrowAudit(p)
        \/ AdminSetActions(p)
        \/ AdminSetSignin(p)

AdminSpec == AdminInit /\ [][AdminNext]_vars

\* the membership rows of the "administrators" group
AdminMemberships ==
    Matching(db[USER_GROUP_JOIN],
             LAMBDA r : r.usergroup_id = UserGroupNameToId(S("administrators")).val)

\* C4: in a sequence of CanBecomeAdmin and BecomeAdmin calls (one after the
\* other: no BecomeAdmin is in progress when CanBecomeAdmin is asked),
\* CanBecomeAdmin returns true before the first BecomeAdmin that returned true
\* and false after it.
C4_TrueUntilPromoted ==
    (res.op = "CanBecomeAdmin" /\ res.quiet) => (res.out = ~res.promoted)

\* C5: at most one BecomeAdmin call returns true and at most one membership
\* row of the administrators group is inserted.
C5_PromotedAtMostOnce ==
    hist.returnedTrue <= 1 /\ Cardinality(AdminMemberships) <= 1

\* C21: a BecomeAdmin call made while a user holds the administrators group
\* returns false and changes no table.
C21_RefusedLeavesDataset ==
    [][(AdminMemberships # {} /\ hist'.calls = hist.calls + 1) =>
           /\ res'.op = "BecomeAdmin" /\ res'.out = FALSE
           /\ db' = db /\ procs' = procs]_vars

C21_Witness ==
    res.op = "BecomeAdmin" /\ res.out = FALSE /\ AdminMemberships # {}

\* C22: when BecomeAdmin(userId) has returned true, a membership row links
\* userId to the administrators group and CanBecomeAdmin is false.
C22_TrueMeansMember ==
    (res.op = "BecomeAdmin" /\ res.out = TRUE) =>
        /\ \E k \in AdminMemberships :
               db[USER_GROUP_JOIN][k].user_account_id = res.userId
        /\ ~CanBecomeAdmin

----------------------------------------------------------------------------
(* Reference-id translation against a changing storage *)

RefMaxId == 2

RefMaxRows == 2

RefTables == {WORLD_TABLE, ACTION_TABLE}

RefPool == {S("ref") \o FormatInt(k) : k \in 1..RefMaxId}

RefInit ==
    /\ db = [t \in RefTables |-> << >>]
    /\ res = NoRes
    /\ procs = NoProcs
    /\ call = NoCall
    /\ hist = NoHist

\* storage: insert into typeName (id, reference_id); the primary key and the
\* reference id are unique within the table
RefInsert(typeName, id, ref) ==
    /\ Len(db[typeName]) < RefMaxRows
    /\ \A k \in 1..Len(db[typeName]) :
           db[typeName][k].id # id /\ db[typeName][k].reference_id # ref
    /\ db' = [db EXCEPT ![typeName] = Append(@, Row(id, ref, 0, 0, << >>))]
    /\ res' = NoRes
    /\ UNCHANGED <<procs, call, hist>>

\* storage: delete from typeName where id = ?
RefDelete(typeName, id) ==
    /\ \E k \in 1..Len(db[typeName]) : db[typeName][k].id = id
    /\ db' = [db EXCEPT ![typeName] = SelectRows(@, LAMBDA r : r.id # id)]
    /\ res' = NoRes
    /\ UNCHANGED <<procs, call, hist>>

\* GetReferenceIdToId(T, GetIdToReferenceId(T, id))
RefRoundTripId(typeName, id) ==
    LET there == GetIdToReferenceId(typeName, id)
        back == GetReferenceIdToId(typeName, there.val)
    IN  /\ res' = [op |-> "IdToReferenceIdToId", typeName |-> typeName, id |-> id,
                   ref |-> there.val, err |-> there.err,
                   back |-> IF there.err THEN 0 ELSE back.val,
                   backErr |-> IF there.err THEN FALSE ELSE back.err]
        /\ UNCHANGED <<db, procs, call, hist>>

\* GetIdToReferenceId(T, GetReferenceIdToId(T, ref))
RefRoundTripRef(typeName, ref) ==
    LET there == GetReferenceIdToId(typeName, ref)
        back == GetIdToReferenceId(typeName, there.val)
    IN  /\ res' = [op |-> "ReferenceIdToIdToReferenceId", typeName |-> typeName,
                   ref |-> ref, id |-> there.val, err |-> there.err,
                   back |-> IF there.err THEN << >> ELSE back.val,
                   backErr |-> IF there.err THEN FALSE ELSE back.err]
        /\ UNCHANGED <<db, procs, call, hist>>

RefNext ==
    \/ \E t \in RefTables, id \in 1..RefMaxId, ref \in RefPool : RefInsert(t, id, ref)
    \/ \E t \in RefTables, id \in 1..RefMaxId : RefDelete(t, id)
    \/ \E t \in RefTables, id \in 0..(RefMaxId + 1) : RefRoundTripId(t, id)
    \/ \E t \in RefTables, ref \in RefPool \cup {S("ref-unknown"), << >>} :
           RefRoundTripRef(t, ref)

RefSpec == RefInit /\ [][RefNext]_vars

HasId(typeName, id) == \E k \in 1..Len(db[typeName]) : db[typeName][k].id = id

HasRef(typeName, ref) ==
    \E k \in 1..Len(db[typeName]) : db[typeName][k].reference_id = ref

\* C9: translating the internal id of an existing row to its reference id and
\* back gives the id again, translating a reference id present in the table to
\* its id and back gives the reference id again, and the lookup of an absent
\* id or reference id returns an error.
C9_RoundTrip ==
    /\ res.op = "IdToReferenceIdToId" =>
           IF HasId(res.typeName, res.id)
           THEN ~res.err /\ ~res.backErr /\ res.back = res.id
           ELSE res.err
    /\ res.op = "ReferenceIdToIdToReferenceId" =>
           IF HasRef(res.typeName, res.ref)
           THEN ~res.err /\ ~res.backErr /\ res.back = res.ref
           ELSE res.err

\* both round trips happen in a table whose ids and reference ids also occur,
\* paired differently, in the other table
C9_Witness ==
    /\ res.op = "ReferenceIdToIdToReferenceId"
    /\ res.typeName = ACTION_TABLE
    /\ ~res.err /\ res.back = res.ref
    /\ HasRef(WORLD_TABLE, res.ref)
    /\ GetReferenceIdToId(WORLD_TABLE, res.ref).val # res.id

----------------------------------------------------------------------------
(* RelationResolver: ResultToArrayOfMap, one column of one row per step *)

\* the longest batch handed to one call
RowsMaxRows == 2

\* values a resolved column can hold beside the scanned ones
TimeValue(str) == [t |-> "time", i |-> 0, s |-> str]

FilesValue(list) == [t |-> "files", i |-> 0, s |-> << >>, l |-> list]

\* the nil map[string]interface{}
NilMap == [nil |-> TRUE]

PERSON_TABLE == S("person")

\* dr.model.GetName()
ModelName == S("post")

\* columnMap of the resource whose rows are resolved ("__type" is not in it)
RowsColumnMap ==
    [due    |-> [ColumnName |-> S("due"), ColumnType |-> "datetime",
                 IsForeignKey |-> FALSE, DataSource |-> "", Namespace |-> << >>],
     author |-> [ColumnName |-> S("author"), ColumnType |-> "alias",
                 IsForeignKey |-> TRUE, DataSource |-> "self",
                 Namespace |-> PERSON_TABLE],
     files  |-> [ColumnName |-> S("files"), ColumnType |-> "file",
                 IsForeignKey |-> TRUE, DataSource |-> "cloud_store",
                 Namespace |-> S("store")],
     ext    |-> [ColumnName |-> S("ext"), ColumnType |-> "alias",
                 IsForeignKey |-> TRUE, DataSource |-> "remote",
                 Namespace |-> S("elsewhere")]]

Wants_NonNil(included, name) == ~included.nil

\* includedRelationMap != nil && (includedRelationMap[name] || includedRelationMap["*"])
Wants(included, name) ==
    ~included.nil /\ (name \in included.names \/ S("*") \in included.names)

\* fmt.Sprintf("%v-%v", namespace, referenceIdInt)
CacheKey(namespace, id) == namespace \o <<"-">> \o FormatInt(id)

ObjMapAfterFetch_Stored(objMap, cache_key, obj) ==
    [k \in DOMAIN objMap \cup {cache_key} |->
        IF k = cache_key THEN obj ELSE objMap[k]]

\* objMap after the fetched object was handled: no statement writes objMap
ObjMapAfterFetch(objMap, cache_key, obj) == objMap

\* the target row as the nested ResultToArrayOfMap(row, columnMap, nil) leaves
\* it: its owner column is translated, nothing is included
ObjectOf(row) ==
    LET owner == GetIdToReferenceId(USER_ACCOUNT_TABLE_NAME, row.user_account_id)
    IN  [__type |-> Str(ModelName), id |-> Int64(row.id), reference_id |-> Str(row.reference_id),
         user_account_id |-> IF row.user_account_id = 0 THEN Nil
                             ELSE IF owner.err THEN Int64(row.user_account_id)
                             ELSE Str(owner.val),
         permission |-> Int64(row.permission)]

\* select * from typeName where id = ?; no row gives (nil, nil)
GetIdToObject(typeName, id) ==
    IF QueryFails(typeName) THEN [obj |-> NilMap, err |-> TRUE]
    ELSE LET m == SelectRows(TableRows(typeName), LAMBDA r : r.id = id)
         IN  IF Len(m) = 0 THEN [obj |-> NilMap, err |-> FALSE]
             ELSE [obj |-> ObjectOf(m[1]), err |-> FALSE]

\* the file descriptors json.Unmarshal reads from a stored list: "[", one token
\* per object, "]"
Descriptor(tok) ==
    [name |-> IF tok = "{name:a}" THEN Str(S("a"))
              ELSE IF tok = "{name:b}" THEN Str(S("b"))
              ELSE IF tok = "{name:7}" THEN Float64(7)
              ELSE Nil,
     src |-> Nil, reference_id |-> Nil, contents |-> Nil, __type |-> Nil]

Unmarshal(str) ==
    IF /\ Len(str) >= 2 /\ str[1] = "[" /\ str[Len(str)] = "]"
       /\ \A k \in 2..(Len(str) - 1) :
              str[k] \in {"{name:a}", "{name:b}", "{name:7}", "{}"}
    THEN [list |-> [k \in 1..(Len(str) - 2) |-> Descriptor(str[k + 1])], err |-> FALSE]
    ELSE [list |-> << >>, err |-> TRUE]

\* base64.StdEncoding.EncodeToString of the bytes of the named file
EncodeToString(fileName) == <<"base64(">> \o fileName \o <<")">>

\* GetFileFromLocalCloudStore: the readable files of a synced folder
GetFileFromLocalCloudStore(assets, filesList) ==
    IF ~assets.synced THEN << >>
    ELSE LET read == SelectRows(filesList, LAMBDA f : f.src.s \in assets.readable)
         IN  [k \in 1..Len(read) |->
                 [read[k] EXCEPT !.reference_id = read[k].name,
                                 !.contents = Str(EncodeToString(read[k].src.s))]]

\* rows as RowsToMap returns them; position k carries k in its "ext" column
RowsTemplates ==
    {[due |-> Str(<<"1", "2", ":", "3", "0">>), author |-> Int64(1), files |-> Nil],
     [due |-> Nil, author |-> Str(<<"1">>),
      files |-> Str(<<"[", "{name:a}", "{name:b}", "]">>)],
     [due |-> Nil, author |-> Int64(2), files |-> Nil],
     [due |-> Nil, author |-> Int64(7), files |-> Str(S("{name:a}"))],
     [due |-> Nil, author |-> Str(S("x")), files |-> Nil],
     [due |-> Nil, author |-> Str(<< >>), files |-> Str(<<"[", "{}", "]">>)]}

RowsToMap(templates, typeName) ==
    [k \in 1..Len(templates) |->
        [__type |-> Str(typeName), due |-> templates[k].due,
         author |-> templates[k].author, files |-> templates[k].files,
         ext |-> Int64(k)]]

RECURSIVE RowsBatches(_)
RowsBatches(n) ==
    IF n = 0 THEN {<< >>}
    ELSE RowsBatches(n - 1) \cup
         {Append(b, t) : b \in {x \in RowsBatches(n - 1) : Len(x) = n - 1},
                         t \in RowsTemplates}

\* include map and asset folder of a call
RowsSettings ==
    {[included |-> [nil |-> TRUE, names |-> {}],
      assets |-> [synced |-> TRUE, readable |-> {S("b")}]],
     [included |-> [nil |-> FALSE, names |-> {S("*")}],
      assets |-> [synced |-> TRUE, readable |-> {S("a"), S("b")}]],
     [included |-> [nil |-> FALSE, names |-> {S("*")}],
      assets |-> [synced |-> FALSE, readable |-> {}]],
     [included |-> [nil |-> FALSE, names |-> {PERSON_TABLE}],
      assets |-> [synced |-> TRUE, readable |-> {S("a"), S("b")}]],
     [included |-> [nil |-> FALSE, names |-> {S("files")}],
      assets |-> [synced |-> TRUE, readable |-> {S("a")}]]}

RowsPersons ==
    <<Row(1, S("p-one"), 0, 0, S("ann")), Row(2, S("p-two"), 1, 0, S("bob"))>>

\* the person rows that storage deletes
RowsDeletable == {RowsPersons[1].id}

RowsInit ==
    /\ \E stored \in {{USER_ACCOUNT_TABLE_NAME}, {USER_ACCOUNT_TABLE_NAME, PERSON_TABLE}} :
          db = [t \in stored |->
                   IF t = PERSON_TABLE THEN RowsPersons
                   ELSE <<Row(1, S("u1"), 0, 0, S("one"))>>]
    /\ res = NoRes
    /\ procs = NoProcs
    /\ call = NoCall
    /\ hist = NoHist

\* storage: delete from person where id = ?, before or during the call
RowsDelete(id) ==
    /\ call.status \in {"none", "running"}
    /\ PERSON_TABLE \in DOMAIN db
    /\ \E k \in 1..Len(db[PERSON_TABLE]) : db[PERSON_TABLE][k].id = id
    /\ db' = [db EXCEPT ![PERSON_TABLE] = SelectRows(@, LAMBDA r : r.id # id)]
    /\ UNCHANGED <<res, procs, call, hist>>

\* ResultToArrayOfMap(rows, columnMap, includedRelationMap) up to the loop
RowsBegin ==
    /\ call.status = "none"
    /\ \E templates \in RowsBatches(RowsMaxRows), setting \in RowsSettings :
          LET responseArray == RowsToMap(templates, ModelName)
          IN  call' = [status |-> "running", pc |-> "row", input |-> responseArray,
                       rows |-> responseArray, includes |-> << >>,
                       localInclude |-> << >>, objMap |-> << >>, i |-> 0,
                       pending |-> {}, key |-> "", referenceIdInt |-> 0,
                       reads |-> << >>,
                       included |-> setting.included, assets |-> setting.assets]
    /\ UNCHANGED <<db, res, procs, hist>>

\* "for _, row := range responseArray": the next row, or the return
RowsNextRow ==
    /\ call.status = "running" /\ call.pc = "row"
    /\ IF call.i = Len(call.rows)
       THEN /\ call' = [call EXCEPT !.status = "returned"]
            /\ res' = [op |-> "ResultToArrayOfMap", rows |-> call.rows,
                       includes |-> call.includes]
       ELSE /\ call' = [call EXCEPT !.i = @ + 1, !.pc = "columns",
                                   !.localInclude = << >>,
                                   !.pending = DOMAIN call.rows[call.i + 1]]
            /\ UNCHANGED res
    /\ UNCHANGED <<db, procs, hist>>

\* the call after the iteration for column key is over
ColumnDone(c, key) ==
    [c EXCEPT !.pending = @ \ {key},
              !.pc = IF c.pending = {key} THEN "endrow" ELSE "columns"]

Panicked(c) == [c EXCEPT !.status = "panicked"]

\* data source "self" up to and including GetIdToReferenceId
ResolveSelf(c, key, val, namespace) ==
    IF val.t \notin {"int64", "string"} THEN Panicked(c)
    ELSE LET referenceIdInt == IF val.t = "int64" THEN val.i ELSE ParseInt(val.s).val
             cache_key == CacheKey(namespace, referenceIdInt)
             refId == GetIdToReferenceId(namespace, referenceIdInt)
         IN  IF cache_key \in DOMAIN c.objMap
             THEN ColumnDone([c EXCEPT !.localInclude = Append(@, c.objMap[cache_key])],
                             key)
             ELSE LET asked == [c EXCEPT !.reads =
                                   Append(@, <<"GetIdToReferenceId", cache_key>>)]
                      translated == [asked EXCEPT !.rows[c.i][key] = Str(refId.val)]
                  IN  IF refId.err THEN ColumnDone(asked, key)
                      ELSE IF Wants(c.included, namespace)
                      THEN [translated EXCEPT !.pc = "fetch", !.key = key,
                                              !.referenceIdInt = referenceIdInt]
                      ELSE ColumnDone(translated, key)

\* data source "cloud_store"
ResolveCloudStore(c, key, val, columnInfo) ==
    IF val.t # "string" THEN Panicked(c)
    ELSE LET decoded == Unmarshal(val.s)
             foreignFilesList == [k \in 1..Len(decoded.list) |->
                                     [decoded.list[k] EXCEPT !.src = decoded.list[k].name]]
             resolvedFilesList == GetFileFromLocalCloudStore(c.assets, foreignFilesList)
             typed == [k \in 1..Len(resolvedFilesList) |->
                          [resolvedFilesList[k] EXCEPT !.__type = Str(S(columnInfo.ColumnType))]]
         IN  IF decoded.err THEN ColumnDone(c, key)
             ELSE IF \E k \in 1..Len(decoded.list) : decoded.list[k].name.t # "string"
             THEN Panicked(c)
             ELSE IF Wants(c.included, columnInfo.ColumnName)
             THEN ColumnDone([c EXCEPT !.rows[c.i][key] = FilesValue(typed),
                                       !.localInclude = @ \o typed], key)
             ELSE ColumnDone([c EXCEPT !.rows[c.i][key] = FilesValue(foreignFilesList)],
                             key)

ResolveOther_AsSelf(c, key, val) == ResolveSelf(c, key, val, PERSON_TABLE)

\* any other data source: "Undefined data source", continue
ResolveOther(c, key, val) == ColumnDone(c, key)

\* "for key, val := range row": one iteration, the keys in any order.  parsed
\* is whether fieldtypes.GetTime or fieldtypes.GetDateTime accepts the string.
RowsColumn(key, parsed) ==
    /\ call.status = "running" /\ call.pc = "columns"
    /\ key \in call.pending
    /\ LET val == call.rows[call.i][key]
       IN  IF key \notin DOMAIN RowsColumnMap
           THEN parsed /\ call' = ColumnDone(call, key)
           ELSE LET columnInfo == RowsColumnMap[key]
                    dated == IF val # Nil /\ columnInfo.ColumnType = "datetime"
                                /\ val.t = "string"
                             THEN [call EXCEPT !.rows[call.i][key] =
                                      IF parsed THEN TimeValue(val.s) ELSE Nil]
                             ELSE call
                IN  /\ (dated = call) => parsed
                    /\ call' =
                         IF ~columnInfo.IsForeignKey THEN ColumnDone(dated, key)
                         ELSE IF val = Str(<< >>) \/ val = Nil THEN ColumnDone(dated, key)
                         ELSE IF columnInfo.DataSource = "self"
                         THEN ResolveSelf(dated, key, val, columnInfo.Namespace)
                         ELSE IF columnInfo.DataSource = "cloud_store"
                         THEN ResolveCloudStore(dated, key, val, columnInfo)
                         ELSE ResolveOther(dated, key, val)
    /\ UNCHANGED <<db, res, procs, hist>>

\* obj, err := dr.GetIdToObject(namespace, referenceIdInt); obj["__type"] = namespace
RowsFetch ==
    /\ call.status = "running" /\ call.pc = "fetch"
    /\ LET namespace == RowsColumnMap[call.key].Namespace
           got == GetIdToObject(namespace, call.referenceIdInt)
           obj == [got.obj EXCEPT !.__type = Str(namespace)]
       IN  call' =
             IF got.obj = NilMap THEN Panicked(call)
             ELSE ColumnDone(
                      [call EXCEPT
                          !.localInclude = IF got.err THEN @ ELSE Append(@, obj),
                          !.reads = Append(@, <<"GetIdToObject",
                                       CacheKey(namespace, call.referenceIdInt)>>),
                          !.objMap = ObjMapAfterFetch(@,
                                         CacheKey(namespace, call.referenceIdInt), obj)],
                      call.key)
    /\ UNCHANGED <<db, res, procs, hist>>

\* includes = append(includes, localInclude)
RowsEndRow ==
    /\ call.status = "running" /\ call.pc = "endrow"
    /\ call' = [call EXCEPT !.includes = Append(@, call.localInclude), !.pc = "row"]
    /\ UNCHANGED <<db, res, procs, hist>>

RowsNext ==
    \/ \E id \in RowsDeletable : RowsDelete(id)
    \/ RowsBegin
    \/ RowsNextRow
    \/ \E key \in DOMAIN RowsToMap(<<CHOOSE t \in RowsTemplates : TRUE>>, << >>)[1],
          parsed \in BOOLEAN : RowsColumn(key, parsed)
    \/ RowsFetch
    \/ RowsEndRow

RowsSpec == RowsInit /\ [][RowsNext]_vars

\* the internal id a "self" column value points at, and whether it points at all
SelfTarget(val) == IF val.t = "int64" THEN val.i ELSE ParseInt(val.s).val

PointsAt(val) == val # Nil /\ val # Str(<< >>)

PersonStored(id) ==
    \E k \in 1..Len(TableRows(PERSON_TABLE)) : TableRows(PERSON_TABLE)[k].id = id

PersonReference(id) == (CHOOSE p \in {RowsPersons[k] : k \in 1..Len(RowsPersons)} :
                            p.id = id).reference_id

\* C6: a call of ResultToArrayOfMap that is over has returned, with one output
\* row and one include list per input row, in input order, whatever columns
\* failed to resolve.
C6_OneOutputPerRow ==
    call.status \in {"returned", "panicked"} =>
        /\ call.status = "returned"
        /\ Len(call.rows) = Len(call.input)
        /\ Len(call.includes) = Len(call.input)
        /\ \A k \in 1..Len(call.input) : call.rows[k].ext = call.input[k].ext

\* C7: in a returned batch every "self" column with a non-empty value whose
\* target row is stored holds the target's reference id, in the first row that
\* references the target and in every later one.
C7_ReferenceIdReturned ==
    call.status = "returned" =>
        \A k \in 1..Len(call.input) :
            LET val == call.input[k].author
            IN  (PointsAt(val) /\ PersonStored(SelfTarget(val))) =>
                    call.rows[k].author = Str(PersonReference(SelfTarget(val)))

\* two rows of one batch reference person 1, the first as a number and the
\* second as a string, the person was fetched for the include list, and both
\* rows came back with the reference id
C7_Witness ==
    /\ call.status = "returned"
    /\ Len(call.input) = 2
    /\ call.input[1].author = Int64(1) /\ call.input[2].author = Str(<<"1">>)
    /\ Wants(call.included, PERSON_TABLE)
    /\ PersonStored(1)
    /\ \E n \in 1..Len(call.includes[1]) :
           call.includes[1][n].reference_id = Str(PersonReference(1))
    /\ call.rows[1].author = Str(PersonReference(1))
    /\ call.rows[2].author = Str(PersonReference(1))

\* C8: when a "self" column of a batch (whose file lists all decode to named
\* descriptors) points at a person that is not stored, the call returns, the
\* row's include list holds no person for it, and the column holds the
\* original value or the reference id.
C8_MissingTargetSkipped ==
    call.status \in {"returned", "panicked"} =>
        \A k \in 1..Len(call.input) :
            LET val == call.input[k].author
            IN  (/\ PointsAt(val) /\ ~PersonStored(SelfTarget(val))
                 /\ \A j \in 1..Len(call.input) :
                        call.input[j].files # Str(<<"[", "{}", "]">>)) =>
                    /\ call.status = "returned"
                    /\ \A n \in 1..Len(call.includes[k]) :
                           call.includes[k][n].__type # Str(PERSON_TABLE)
                    /\ call.rows[k].author \in
                           {val, Str(PersonReference(SelfTarget(val)))}

\* C15: in a returned call no (namespace, id) of a stored target is read from
\* storage more than once, by GetIdToReferenceId or by GetIdToObject, and
\* every row that references a stored target gets it in its include list when
\* it is wanted.
C15_ReadOncePerKey ==
    call.status = "returned" =>
        /\ \A m, n \in 1..Len(call.reads) :
               (/\ m # n
                /\ \E id \in 1..2 : /\ PersonStored(id)
                                    /\ call.reads[m][2] = CacheKey(PERSON_TABLE, id))
                   => call.reads[m] # call.reads[n]
        /\ \A k \in 1..Len(call.input) :
               LET val == call.input[k].author
               IN  (/\ PointsAt(val) /\ PersonStored(SelfTarget(val))
                    /\ Wants(call.included, PERSON_TABLE)) =>
                       \E n \in 1..Len(call.includes[k]) :
                           call.includes[k][n].reference_id =
                               Str(PersonReference(SelfTarget(val)))

\* the descriptors of a decoded list that hydration keeps: those with a
\* readable file in a synced folder, in order, with reference id and contents
Hydrated(val, assets) ==
    LET list == Unmarshal(val.s).list
        kept == SelectRows(list,
                    LAMBDA f : assets.synced /\ f.name.t = "string"
                                             /\ f.name.s \in assets.readable)
    IN  [n \in 1..Len(kept) |->
            [name |-> kept[n].name, src |-> kept[n].name,
             reference_id |-> kept[n].name,
             contents |-> Str(<<"base64(">> \o kept[n].name.s \o <<")">>),
             __type |-> Str(S("file"))]]

\* C16: a row whose "cloud_store" column decodes and is to be hydrated does
\* not make the call fail in its column loop, and in the returned batch both
\* the column and the files of the row's include list are the descriptors with
\* a readable file, in order, with their encoded contents.
C16_HydratedReadable ==
    call.status \in {"returned", "panicked"} =>
        \A k \in 1..Len(call.input) :
            LET val == call.input[k].files
            IN  (/\ val.t = "string" /\ ~Unmarshal(val.s).err
                 /\ Wants(call.included, S("files"))) =>
                    /\ ~(call.status = "panicked" /\ call.pc = "columns" /\ call.i = k)
                    /\ call.status = "returned" =>
                           /\ call.rows[k].files = FilesValue(Hydrated(val, call.assets))
                           /\ SelectRows(call.includes[k],
                                  LAMBDA f : f.__type = Str(S("file")))
                                  = Hydrated(val, call.assets)

\* C17: in a returned batch the column of an unknown data source holds its
\* input value, the include lists hold nothing but the targets of the "self"
\* column and the files of the "cloud_store" column, and every row was
\* processed.
C17_OtherSourceUntouched ==
    call.status = "returned" =>
        /\ Len(call.includes) = Len(call.input)
        /\ \A k \in 1..Len(call.input) :
               /\ call.rows[k].ext = call.input[k].ext
               /\ \A n \in 1..Len(call.includes[k]) :
                      call.includes[k][n].__type \in {Str(PERSON_TABLE), Str(S("file"))}
               /\ (call.input[k].author = Nil /\ call.input[k].files = Nil) =>
                      call.includes[k] = << >>

\* a batch of two rows with a non-nil value in the column of the unknown data
\* source returned, everything being included, with the first row's target in
\* its include list
C17_Witness ==
    /\ call.status = "returned"
    /\ Len(call.input) = 2
    /\ S("*") \in call.included.names
    /\ call.rows[1].ext = Int64(1) /\ call.rows[2].ext = Int64(2)
    /\ call.input[1].author = Int64(1)
    /\ Len(call.includes[1]) = 1
    /\ call.rows[2].author = Str(PersonReference(2))

\* C18: in a returned batch the stored target of a "self" column is in the
\* row's include list exactly if the include map is non-nil and names the
\* namespace or "*"; with a nil include map every include list is empty, no
\* object was fetched, and the column still holds the reference id.
C18_IncludeIffRequested ==
    call.status = "returned" =>
        \A k \in 1..Len(call.input) :
            LET val == call.input[k].author
                attached == \E n \in 1..Len(call.includes[k]) :
                                call.includes[k][n].__type = Str(PERSON_TABLE)
            IN  /\ (PointsAt(val) /\ PersonStored(SelfTarget(val))) =>
                       /\ attached <=>
                              (/\ ~call.included.nil
                               /\ call.included.names \cap {PERSON_TABLE, S("*")} # {})
                       /\ call.rows[k].author = Str(PersonReference(SelfTarget(val)))
                /\ call.included.nil =>
                       /\ call.includes[k] = << >>
                       /\ \A n \in 1..Len(call.reads) : call.reads[n][1] # "GetIdToObject"

\* two returned rows reference stored persons: with a nil include map both
\* are translated and nothing is included
C18_Witness ==
    /\ call.status = "returned"
    /\ call.included.nil
    /\ Len(call.input) = 2
    /\ call.input[1].author = Int64(1) /\ call.input[2].author = Int64(2)
    /\ call.rows[1].author = Str(PersonReference(1))
    /\ call.rows[2].author = Str(PersonReference(2))
    /\ call.includes = << << >>, << >> >>
    /\ Len(call.reads) = 2

----------------------------------------------------------------------------
(* GetRowPermission *)

\* row[key]: nil when the map has no such key (and for every key of a nil map)
Get(row, key) == IF key \in DOMAIN row THEN row[key] ELSE Nil

\* select * from typeName where reference_id = ?; no row is an error
GetReferenceIdToObject(typeName, referenceId) ==
    IF QueryFails(typeName) THEN [obj |-> NilMap, err |-> TRUE]
    ELSE LET results == SelectRows(TableRows(typeName),
                                   LAMBDA r : r.reference_id = referenceId)
         IN  IF Len(results) = 0 THEN [obj |-> NilMap, err |-> TRUE]
             ELSE [obj |-> ObjectOf(results[1]), err |-> FALSE]

\* select usergroup_id.reference_id, join.reference_id, join.permission
\*   from objType join {join table} join usergroup usergroup_id
\*   where objType.colName = colvalue
GetObjectUserGroupsByWhere(objType, colName, colvalue) ==
    IF QueryFails(objType) \/ QueryFails(JoinTableName(objType))
          \/ QueryFails(USERGROUP_TABLE)
    THEN << >>
    ELSE LET joined ==
                 SelectRows(TableRows(JoinTableName(objType)),
                     LAMBDA j :
                         /\ Matching(TableRows(objType),
                                LAMBDA o : /\ o.id = SubjectId(objType, j)
                                           /\ ColumnValue(o, colName) = colvalue) # {}
                         /\ Matching(TableRows(USERGROUP_TABLE),
                                LAMBDA g : g.id = j.usergroup_id) # {})
         IN  [k \in 1..Len(joined) |->
                 GroupPermission(
                     FirstRow(TableRows(USERGROUP_TABLE),
                              LAMBDA g : g.id = joined[k].usergroup_id).reference_id,
                     << >>, joined[k].reference_id, joined[k].permission)]

GetObjectPermissionByReferenceId(objectType, referenceId) ==
    LET rows == TableRows(objectType)
        Hit(r) == r.reference_id = referenceId
    IN  IF QueryFails(objectType) \/ Matching(rows, Hit) = {}
        THEN EmptyPermission
        ELSE LET resultObject == FirstRow(rows, Hit)
                 user == GetIdToReferenceId(USER_ACCOUNT_TABLE_NAME,
                                            resultObject.user_account_id)
             IN  PermissionInstance(
                     IF /\ objectType # USERGROUP_TABLE
                        /\ resultObject.user_account_id # 0 /\ ~user.err
                     THEN user.val ELSE << >>,
                     GetObjectGroupsByObjectId(objectType, resultObject.id),
                     resultObject.permission)

\* every type taken as related to usergroup
HasManyUsergroup_All(rowType) == TRUE

\* dr.Cruds[rowType].model.HasMany("usergroup")
HasManyUsergroup(rowType) == rowType \in {WORLD_TABLE, ACTION_TABLE}

\* GetRowPermission(row): the instance returned, or a panic of a failed type
\* assertion
GetRowPermission(row) ==
    LET refId == IF "reference_id" \in DOMAIN row THEN row.reference_id
                 ELSE Get(row, "id")
        rowType == row.__type.s
        refetched == rowType # USERGROUP_TABLE /\ Get(row, "user_account_id") = Nil
        current == IF refetched THEN GetReferenceIdToObject(rowType, refId.s).obj
                   ELSE row
        u == Get(current, "user_account_id")
        loc == IndexHas(rowType)
        byWhere == loc = -1 /\ HasManyUsergroup(rowType)
        self == ~byWhere /\ rowType = USERGROUP_TABLE
        originalGroupId == Get(current, "reference_id")
        rowPermission == Get(current, "permission")
        stored == GetObjectPermissionByReferenceId(rowType, refId.s)
        asserted == refetched \/ byWhere \/ self \/ rowPermission = Nil
    IN  IF \/ asserted /\ refId.t # "string"
           \/ self /\ originalGroupId # Nil /\ originalGroupId.t # "string"
           \/ rowPermission.t \notin {"nil", "int64", "float64", "string"}
        THEN [panic |-> TRUE, perm |-> EmptyPermission]
        ELSE [panic |-> FALSE,
              perm |-> PermissionInstance(
                  IF rowType # USERGROUP_TABLE /\ u.t = "string" THEN u.s ELSE << >>,
                  IF byWhere
                  THEN GetObjectUserGroupsByWhere(rowType, "reference_id", refId.s)
                  ELSE IF self
                  THEN <<GroupPermission(
                             IF originalGroupId # Nil THEN originalGroupId.s ELSE refId.s,
                             refId.s, refId.s, UsergroupDefaultPermission)>>
                  ELSE << >>,
                  IF rowPermission = Nil THEN stored.Permission
                  ELSE IF rowPermission.t = "string" THEN ParseInt(rowPermission.s).val
                  ELSE rowPermission.i)]

\* a field that the row does not carry
Missing == [t |-> "missing", i |-> 0, s |-> << >>]

RowPermTypes == {WORLD_TABLE, USERGROUP_TABLE, JoinTableName(WORLD_TABLE)}

\* the reference id of the stored row of a type
RowPermStoredRef(rowType) ==
    IF rowType = WORLD_TABLE THEN S("w1")
    ELSE IF rowType = USERGROUP_TABLE THEN S("g1")
    ELSE S("rel") \o FormatInt(1)

\* rows as callers hand them in: the id is always there, the other fields may
\* be missing or of another type than storage gives them
RowPermRows ==
    UNION {
        {[k \in {"id", "__type"} \cup {x \in DOMAIN f : f[x] # Missing} |->
             IF k = "id" THEN Int64(1)
             ELSE IF k = "__type" THEN Str(rowType) ELSE f[k]] :
         f \in [reference_id : {Missing, Str(S("gone")), Str(RowPermStoredRef(rowType))},
                user_account_id : {Missing, Str(S("u1")), Int64(1)},
                permission : {Missing, Int64(0), Int64(34), Float64(34),
                              Str(<<"3", "4">>),
                              Str(S("x")), Other}]} :
        rowType \in RowPermTypes}

RowPermGetRowPermission(row) ==
    LET out == GetRowPermission(row)
    IN  /\ res = NoRes
        /\ res' = [op |-> "GetRowPermission", row |-> row,
                   panic |-> out.panic, perm |-> out.perm]
        /\ UNCHANGED <<db, procs, call, hist>>

RowPermNext == \E row \in RowPermRows : RowPermGetRowPermission(row)

RowPermSpec == PermInit /\ [][RowPermNext]_vars

\* C10: GetRowPermission does not panic on a row whose optional fields are
\* missing or oddly typed, and a row of a type other than usergroup that
\* carries neither owner nor permission and has no stored counterpart gets the
\* empty permission instance.
C10_NeverPanics ==
    res.op = "GetRowPermission" =>
        /\ ~res.panic
        /\ (/\ res.row.__type.s # USERGROUP_TABLE
            /\ Get(res.row, "user_account_id") = Nil
            /\ Get(res.row, "permission") = Nil
            /\ Get(res.row, "reference_id").t = "string"
            /\ Matching(TableRows(res.row.__type.s),
                   LAMBDA r : r.reference_id = res.row.reference_id.s) = {})
               => res.perm = EmptyPermission

\* the bitmask a permission column value stands for: the number itself, the
\* number a decimal string spells, 0 for any other string
Spelled(val) ==
    IF val.t \in {"int64", "float64"} THEN val.i
    ELSE IF val = Str(<<"3", "4">>) THEN 34 ELSE 0

\* C11: a call of GetRowPermission that returns on a row with an integer, a
\* floating-point or a string permission column returns the bitmask the value
\* stands for: 34 for 34, 34.0 and "34", 0 for a string that is no decimal
\* integer.
C11_SameBitmask ==
    (/\ res.op = "GetRowPermission" /\ ~res.panic
     /\ Get(res.row, "permission").t \in {"int64", "float64", "string"}) =>
        res.perm.Permission = Spelled(res.row.permission)

\* C27: GetRowPermission returns the integer of the given row's permission
\* column whenever the row carries one, an explicit 0 included and also when
\* the row has no owner column; only a row without permission column gets the
\* bitmask stored under its reference id.
C27_GivenPermissionWins ==
    (res.op = "GetRowPermission" /\ ~res.panic) =>
        /\ Get(res.row, "permission").t = "int64" =>
               res.perm.Permission = res.row.permission.i
        /\ Get(res.row, "permission") = Nil =>
               res.perm.Permission =
                   GetObjectPermissionByReferenceId(res.row.__type.s,
                                                    res.row.reference_id.s).Permission

\* C28: GetRowPermission gives a row of a join table (_has_ in the type name)
\* no groups, a usergroup row exactly one GroupPermission that names the row
\* itself as group, object and relation, and a row of any other type the
\* memberships stored for its reference id.
C28_GroupsByType ==
    (res.op = "GetRowPermission" /\ ~res.panic) =>
        LET rowType == res.row.__type.s
            groups == res.perm.UserGroupId
        IN  IF \E k \in 1..Len(rowType) : rowType[k] = "_has_"
            THEN groups = << >>
            ELSE IF rowType = USERGROUP_TABLE
            THEN /\ Len(groups) = 1
                 /\ groups[1].GroupReferenceId = res.row.reference_id.s
                 /\ groups[1].ObjectReferenceId = res.row.reference_id.s
                 /\ groups[1].RelationReferenceId = res.row.reference_id.s
            ELSE groups = GetObjectUserGroupsByWhere(rowType, "reference_id",
                                                     res.row.reference_id.s)

C28_Witness ==
    /\ res.op = "GetRowPermission" /\ ~res.panic
    /\ res.row.__type.s = JoinTableName(WORLD_TABLE)
    /\ Get(res.row, "reference_id") = Str(RowPermStoredRef(JoinTableName(WORLD_TABLE)))
    /\ TableRows(JoinTableName(WORLD_TABLE)) # << >>
    /\ res.perm.UserGroupId = << >>

----------------------------------------------------------------------------
(* Row fetching and the permission of an object by internal id *)

\* GetObjectPermissionById: the instance returned, or the panic of
\* resultObject["id"].(int64) when the scan left the map empty
GetObjectPermissionById(objectType, id) ==
    LET rows == TableRows(objectType)
        Hit(r) == r.id = id
    IN  IF QueryFails(objectType) \/ Matching(rows, Hit) = {}
        THEN [panic |-> TRUE, perm |-> EmptyPermission]
        ELSE LET resultObject == FirstRow(rows, Hit)
                 user == GetIdToReferenceId(USER_ACCOUNT_TABLE_NAME,
                                            resultObject.user_account_id)
             IN  [panic |-> FALSE,
                  perm |-> PermissionInstance(
                      IF /\ objectType # USERGROUP_TABLE
                         /\ resultObject.user_account_id # 0 /\ ~user.err
                      THEN user.val ELSE << >>,
                      GetObjectGroupsByObjectId(objectType, resultObject.id),
                      resultObject.permission)]

\* the include list ResultToArrayOfMap(rows, columnMap, {"*": true}) builds
\* for a stored row: the object of its owner
IncludesOf(row) ==
    LET owner == GetIdToObject(USER_ACCOUNT_TABLE_NAME, row.user_account_id)
    IN  IF row.user_account_id = 0 \/ owner.obj = NilMap THEN << >>
        ELSE <<[owner.obj EXCEPT !.__type = Str(USER_ACCOUNT_TABLE_NAME)]>>

\* select * from typeName where colName = colValue
GetRowsByWhereClause(typeName, colName, colValue) ==
    IF QueryFails(typeName)
    THEN [panic |-> FALSE, rows |-> << >>, includes |-> << >>, err |-> TRUE]
    ELSE LET m1 == SelectRows(TableRows(typeName),
                              LAMBDA r : ColumnValue(r, colName) = colValue)
         IN  [panic |-> FALSE, rows |-> [k \in 1..Len(m1) |-> ObjectOf(m1[k])],
              includes |-> [k \in 1..Len(m1) |-> IncludesOf(m1[k])], err |-> FALSE]

\* GetSingleRowByReferenceId: the error of Queryx is dropped and the nil rows
\* are closed and read
GetSingleRowByReferenceId(typeName, referenceId) ==
    IF QueryFails(typeName)
    THEN [panic |-> TRUE, rows |-> << >>, includes |-> << >>, err |-> FALSE]
    ELSE LET resultRows == SelectRows(TableRows(typeName),
                                      LAMBDA r : r.reference_id = referenceId)
         IN  IF Len(resultRows) < 1
             THEN [panic |-> FALSE, rows |-> << >>, includes |-> << >>, err |-> TRUE]
             ELSE [panic |-> FALSE, rows |-> <<ObjectOf(resultRows[1])>>,
                   includes |-> <<IncludesOf(resultRows[1])>>, err |-> FALSE]

\* GetSingleRowById: as GetSingleRowByReferenceId, by id
GetSingleRowById(typeName, id) ==
    IF QueryFails(typeName)
    THEN [panic |-> TRUE, rows |-> << >>, includes |-> << >>, err |-> FALSE]
    ELSE LET resultRows == SelectRows(TableRows(typeName), LAMBDA r : r.id = id)
         IN  IF Len(resultRows) < 1
             THEN [panic |-> FALSE, rows |-> << >>, includes |-> << >>, err |-> TRUE]
             ELSE [panic |-> FALSE, rows |-> <<ObjectOf(resultRows[1])>>,
                   includes |-> <<IncludesOf(resultRows[1])>>, err |-> FALSE]

----------------------------------------------------------------------------
(* The lookups against a storage that changes between the calls *)

\* the most membership rows the join table holds
LookupMaxMembers == 2

LookupReferences == {S("w1"), S("w2")}

\* the call made most recently
LastCall == IF res = NoRes THEN hist ELSE res

LookupInit ==
    /\ db = [t \in {USER_ACCOUNT_TABLE_NAME, USERGROUP_TABLE, WORLD_TABLE,
                    JoinTableName(WORLD_TABLE)} |->
                CASE t = USER_ACCOUNT_TABLE_NAME -> PermUsers
                  [] t = USERGROUP_TABLE -> PermGroups
                  [] t = WORLD_TABLE ->
                         <<Row(1, S("w1"), 1, Bit("Guest", "Read"), S("todo"))>>
                  [] OTHER -> << >>]
    /\ res = NoRes
    /\ procs = NoProcs
    /\ call = NoCall
    /\ hist = NoRes

\* storage: insert into world_world_id_has_usergroup_usergroup_id; group 1 is
\* given read, group 2 execute
LookupInsertMember(id, groupId) ==
    /\ Len(db[JoinTableName(WORLD_TABLE)]) < LookupMaxMembers
    /\ \A k \in 1..Len(db[JoinTableName(WORLD_TABLE)]) :
           db[JoinTableName(WORLD_TABLE)][k].id # id
    /\ db' = [db EXCEPT ![JoinTableName(WORLD_TABLE)] =
                 Append(@, JoinRow(id, S("rel") \o FormatInt(id), 1, groupId,
                                   IF groupId = 1 THEN Bit("Group", "Read")
                                   ELSE Bit("Group", "Execute")))]
    /\ res' = NoRes /\ hist' = LastCall
    /\ UNCHANGED <<procs, call>>

\* storage: delete from world_world_id_has_usergroup_usergroup_id where id = ?
LookupDeleteMember(id) ==
    /\ \E k \in 1..Len(db[JoinTableName(WORLD_TABLE)]) :
           db[JoinTableName(WORLD_TABLE)][k].id = id
    /\ db' = [db EXCEPT ![JoinTableName(WORLD_TABLE)] =
                 SelectRows(@, LAMBDA r : r.id # id)]
    /\ res' = NoRes /\ hist' = LastCall
    /\ UNCHANGED <<procs, call>>

\* storage: update world set user_account_id = ?, reference_id = ? where id = 1
LookupUpdateObject(owner, ref) ==
    /\ db[WORLD_TABLE][1].user_account_id # owner \/ db[WORLD_TABLE][1].reference_id # ref
    /\ db' = [db EXCEPT ![WORLD_TABLE][1].user_account_id = owner,
                        ![WORLD_TABLE][1].reference_id = ref]
    /\ res' = NoRes /\ hist' = LastCall
    /\ UNCHANGED <<procs, call>>

\* hist after a call: the call made before it when that had the same arguments
Before(op, typeName, arg) ==
    IF LastCall.op = op /\ LastCall.type = typeName /\ LastCall.arg = arg
    THEN LastCall ELSE NoRes

LookupGroups(objType, id) ==
    /\ res' = [op |-> "GetObjectGroupsByObjectId", type |-> objType, arg |-> id,
               out |-> GetObjectGroupsByObjectId(objType, id)]
    /\ hist' = Before("GetObjectGroupsByObjectId", objType, id)
    /\ UNCHANGED <<db, procs, call>>

LookupIdToReferenceId(typeName, id) ==
    /\ res' = [op |-> "GetIdToReferenceId", type |-> typeName, arg |-> id,
               out |-> GetIdToReferenceId(typeName, id)]
    /\ hist' = Before("GetIdToReferenceId", typeName, id)
    /\ UNCHANGED <<db, procs, call>>

LookupReferenceIdToId(typeName, ref) ==
    /\ res' = [op |-> "GetReferenceIdToId", type |-> typeName, arg |-> ref,
               out |-> GetReferenceIdToId(typeName, ref)]
    /\ hist' = Before("GetReferenceIdToId", typeName, ref)
    /\ UNCHANGED <<db, procs, call>>

LookupPermission(objectType, ref) ==
    /\ res' = [op |-> "GetObjectPermissionByReferenceId", type |-> objectType,
               arg |-> ref, out |-> GetObjectPermissionByReferenceId(objectType, ref)]
    /\ hist' = Before("GetObjectPermissionByReferenceId", objectType, ref)
    /\ UNCHANGED <<db, procs, call>>

LookupPermissionById(objectType, id) ==
    /\ res' = [op |-> "GetObjectPermissionById", type |-> objectType, arg |-> id,
               out |-> GetObjectPermissionById(objectType, id)]
    /\ hist' = Before("GetObjectPermissionById", objectType, id)
    /\ UNCHANGED <<db, procs, call>>

LookupNext ==
    \/ \E id \in 1..LookupMaxMembers, groupId \in {1, 2} : LookupInsertMember(id, groupId)
    \/ \E id \in 1..LookupMaxMembers : LookupDeleteMember(id)
    \/ \E owner \in {1, 2}, ref \in LookupReferences : LookupUpdateObject(owner, ref)
    \/ \E t \in {WORLD_TABLE, USERGROUP_TABLE}, id \in 1..2 : LookupGroups(t, id)
    \/ \E id \in 1..2 : LookupIdToReferenceId(WORLD_TABLE, id)
    \/ \E ref \in LookupReferences : LookupReferenceIdToId(WORLD_TABLE, ref)
    \/ \E ref \in LookupReferences : LookupPermission(WORLD_TABLE, ref)
    \/ \E id \in 1..2 : LookupPermissionById(WORLD_TABLE, id)

LookupSpec == LookupInit /\ [][LookupNext]_vars

\* what storage holds: the rows with a given id, the membership rows of an
\* object, and the memberships and the permission instance they amount to
StoredById(typeName, id) == SelectRows(db[typeName], LAMBDA r : r.id = id)

StoredMembers(id) ==
    SelectRows(db[JoinTableName(WORLD_TABLE)], LAMBDA r : r.subject_id = id)

StoredGroups(id) ==
    [k \in 1..Len(StoredMembers(id)) |->
        [GroupReferenceId |->
             StoredById(USERGROUP_TABLE, StoredMembers(id)[k].usergroup_id)[1].reference_id,
         ObjectReferenceId |->
             IF StoredById(WORLD_TABLE, id) = << >> THEN << >>
             ELSE StoredById(WORLD_TABLE, id)[1].reference_id,
         RelationReferenceId |-> StoredMembers(id)[k].reference_id,
         Permission |-> StoredMembers(id)[k].permission]]

\* C12: GetObjectGroupsByObjectId("usergroup", id) of a stored group returns
\* one membership whose three reference ids are the group's reference id and
\* whose permission is the default permission of the usergroup table.
C12_SelfMembership ==
    (/\ res.op = "GetObjectGroupsByObjectId" /\ res.type = USERGROUP_TABLE
     /\ StoredById(USERGROUP_TABLE, res.arg) # << >>) =>
        LET ref == StoredById(USERGROUP_TABLE, res.arg)[1].reference_id
        IN  res.out = <<[GroupReferenceId |-> ref, ObjectReferenceId |-> ref,
                         RelationReferenceId |-> ref,
                         Permission |-> UsergroupDefaultPermission]>>

\* the membership of group 2 in itself was returned while storage has no join
\* table of the usergroup type and the group has membership rows of another
\* type
C12_Witness ==
    /\ res.op = "GetObjectGroupsByObjectId" /\ res.type = USERGROUP_TABLE
    /\ res.arg = 2 /\ Len(res.out) = 1
    /\ res.out[1].GroupReferenceId = S("g2")
    /\ JoinTableName(USERGROUP_TABLE) \notin DOMAIN db
    /\ \E k \in 1..Len(db[JoinTableName(WORLD_TABLE)]) :
           db[JoinTableName(WORLD_TABLE)][k].usergroup_id = 2

\* C13: GetObjectGroupsByObjectId(type, id) of another type returns one
\* membership per join row that references the object, in order, with the
\* join row's reference id and bitmask, the group's reference id and the
\* object's reference id; no join row gives the empty list.
C13_OnePerJoinRow ==
    (res.op = "GetObjectGroupsByObjectId" /\ res.type = WORLD_TABLE) =>
        res.out = StoredGroups(res.arg)

\* two memberships of one object in two groups were returned, with bitmasks
\* that differ from each other and from the groups' own
C13_Witness ==
    /\ res.op = "GetObjectGroupsByObjectId" /\ res.type = WORLD_TABLE
    /\ Len(res.out) = 2
    /\ res.out[1].GroupReferenceId # res.out[2].GroupReferenceId
    /\ res.out[1].Permission # res.out[2].Permission
    /\ res.out[1].ObjectReferenceId = db[WORLD_TABLE][1].reference_id
    /\ \A k \in 1..2 : res.out[k].Permission # db[USERGROUP_TABLE][k].permission

\* C14: each lookup returns what storage holds when it is made.
C14_ReadFresh ==
    /\ res.op = "GetObjectGroupsByObjectId" /\ res.type = WORLD_TABLE =>
           res.out = StoredGroups(res.arg)
    /\ res.op = "GetIdToReferenceId" =>
           IF StoredById(res.type, res.arg) = << >> THEN res.out.err
           ELSE res.out = [val |-> StoredById(res.type, res.arg)[1].reference_id,
                           err |-> FALSE]
    /\ res.op = "GetReferenceIdToId" =>
           LET found == SelectRows(db[res.type], LAMBDA r : r.reference_id = res.arg)
           IN  IF found = << >> THEN res.out.err
               ELSE res.out = [val |-> found[1].id, err |-> FALSE]
    /\ res.op = "GetObjectPermissionByReferenceId" =>
           LET found == SelectRows(db[res.type], LAMBDA r : r.reference_id = res.arg)
           IN  IF found = << >> THEN res.out = EmptyPermission
               ELSE res.out =
                      [UserId |-> StoredById(USER_ACCOUNT_TABLE_NAME,
                                             found[1].user_account_id)[1].reference_id,
                       UserGroupId |-> StoredGroups(found[1].id),
                       Permission |-> found[1].permission]

\* a lookup returned another value than the call with the same arguments
\* before it, storage having changed in between: the reference id of object 1
\* and its memberships
C14_Witness ==
    /\ res.op \in {"GetIdToReferenceId", "GetObjectGroupsByObjectId"}
    /\ hist.op = res.op /\ hist.type = res.type /\ hist.arg = res.arg
    /\ hist.out # res.out
    /\ res.type = WORLD_TABLE /\ res.arg = 1
    /\ IF res.op = "GetIdToReferenceId" THEN res.out.val = S("w2")
       ELSE Len(res.out) < Len(hist.out)

\* C19: GetObjectPermissionByReferenceId and GetObjectPermissionById of an
\* object that is not stored return the empty instance and do not panic.
C19_AbsentGivesEmpty ==
    /\ (/\ res.op = "GetObjectPermissionByReferenceId"
        /\ SelectRows(db[res.type], LAMBDA r : r.reference_id = res.arg) = << >>) =>
           res.out = EmptyPermission
    /\ (res.op = "GetObjectPermissionById" /\ StoredById(res.type, res.arg) = << >>) =>
           ~res.out.panic /\ res.out.perm = EmptyPermission

----------------------------------------------------------------------------
(* Row fetching against a storage whose tables can become unreachable *)

FetchMaxId == 2
FetchTypes == {WORLD_TABLE, USER_ACCOUNT_TABLE_NAME}

\* the storage stops answering queries on a table
FetchLoseTable(typeName) ==
    /\ typeName \in DOMAIN db
    /\ db' = [t \in DOMAIN db \ {typeName} |-> db[t]]
    /\ res' = NoRes
    /\ UNCHANGED <<procs, call, hist>>

FetchUpdateObject(owner, ref) ==
    /\ WORLD_TABLE \in DOMAIN db
    /\ db[WORLD_TABLE][1].user_account_id # owner \/ db[WORLD_TABLE][1].reference_id # ref
    /\ db' = [db EXCEPT ![WORLD_TABLE][1].user_account_id = owner,
                        ![WORLD_TABLE][1].reference_id = ref]
    /\ res' = NoRes
    /\ UNCHANGED <<procs, call, hist>>

FetchRowsByWhereClause(typeName, name) ==
    /\ res' = [op |-> "GetRowsByWhereClause", type |-> typeName, arg |-> name,
               out |-> GetRowsByWhereClause(typeName, "table_name", name)]
    /\ UNCHANGED <<db, procs, call, hist>>

FetchSingleRowByReferenceId(typeName, ref) ==
    /\ res' = [op |-> "GetSingleRowByReferenceId", type |-> typeName, arg |-> ref,
               out |-> GetSingleRowByReferenceId(typeName, ref)]
    /\ UNCHANGED <<db, procs, call, hist>>

FetchSingleRowById(typeName, id) ==
    /\ res' = [op |-> "GetSingleRowById", type |-> typeName, arg |-> id,
               out |-> GetSingleRowById(typeName, id)]
    /\ UNCHANGED <<db, procs, call, hist>>

FetchIdToObject(typeName, id) ==
    /\ res' = [op |-> "GetIdToObject", type |-> typeName, arg |-> id,
               out |-> GetIdToObject(typeName, id)]
    /\ UNCHANGED <<db, procs, call, hist>>

FetchReferenceIdToObject(typeName, ref) ==
    /\ res' = [op |-> "GetReferenceIdToObject", type |-> typeName, arg |-> ref,
               out |-> GetReferenceIdToObject(typeName, ref)]
    /\ UNCHANGED <<db, procs, call, hist>>

FetchGroupsByObjectId(objType, id) ==
    /\ res' = [op |-> "GetObjectGroupsByObjectId", type |-> objType, arg |-> id,
               out |-> GetObjectGroupsByObjectId(objType, id)]
    /\ UNCHANGED <<db, procs, call, hist>>

FetchUserGroupsByWhere(objType, ref) ==
    /\ res' = [op |-> "GetObjectUserGroupsByWhere", type |-> objType, arg |-> ref,
               out |-> GetObjectUserGroupsByWhere(objType, "reference_id", ref)]
    /\ UNCHANGED <<db, procs, call, hist>>

\* the storage of LookupInit with one membership of the world row
FetchInit ==
    /\ db = [t \in {USER_ACCOUNT_TABLE_NAME, USERGROUP_TABLE, WORLD_TABLE,
                    JoinTableName(WORLD_TABLE)} |->
                CASE t = USER_ACCOUNT_TABLE_NAME -> PermUsers
                  [] t = USERGROUP_TABLE -> PermGroups
                  [] t = WORLD_TABLE ->
                         <<Row(1, S("w1"), 1, Bit("Guest", "Read"), S("todo"))>>
                  [] OTHER ->
                         <<JoinRow(1, S("rel") \o FormatInt(1), 1, 1, Bit("Group", "Read"))>>]
    /\ res = NoRes
    /\ procs = NoProcs
    /\ call = NoCall
    /\ hist = NoRes

FetchNext ==
    \/ \E t \in FetchTypes \cup {USERGROUP_TABLE, JoinTableName(WORLD_TABLE)} :
           FetchLoseTable(t)
    \/ \E t \in {WORLD_TABLE, USERGROUP_TABLE}, id \in 1..FetchMaxId :
           FetchGroupsByObjectId(t, id)
    \/ \E t \in {WORLD_TABLE, USERGROUP_TABLE}, ref \in {S("w1"), S("g1")} :
           FetchUserGroupsByWhere(t, ref)
    \/ \E owner \in 1..2, ref \in LookupReferences : FetchUpdateObject(owner, ref)
    \/ \E t \in FetchTypes, name \in {S("todo"), S("one")} :
           FetchRowsByWhereClause(t, name)
    \/ \E t \in FetchTypes, ref \in LookupReferences \cup {S("u1")} :
           FetchSingleRowByReferenceId(t, ref)
    \/ \E t \in FetchTypes, id \in 1..FetchMaxId : FetchSingleRowById(t, id)
    \/ \E t \in FetchTypes, id \in 1..FetchMaxId : FetchIdToObject(t, id)
    \/ \E t \in FetchTypes, ref \in LookupReferences \cup {S("u1")} :
           FetchReferenceIdToObject(t, ref)

FetchSpec == FetchInit /\ [][FetchNext]_vars

\* C29: a group-membership lookup whose query storage cannot run returns the
\* empty list.
C29_FailsClosed ==
    LET lost(t) == t \notin DOMAIN db
    IN  /\ (/\ res.op = "GetObjectGroupsByObjectId"
            /\ IF res.type = USERGROUP_TABLE THEN lost(USERGROUP_TABLE)
               ELSE lost(JoinTableName(res.type)) \/ lost(USERGROUP_TABLE)) =>
               res.out = << >>
        /\ (/\ res.op = "GetObjectUserGroupsByWhere"
            /\ \/ lost(res.type) \/ lost(JoinTableName(res.type))
               \/ lost(USERGROUP_TABLE)) =>
               res.out = << >>

C29_Witness ==
    /\ res.op = "GetObjectGroupsByObjectId" /\ res.type = WORLD_TABLE /\ res.arg = 1
    /\ JoinTableName(WORLD_TABLE) \notin DOMAIN db
    /\ WORLD_TABLE \in DOMAIN db /\ USERGROUP_TABLE \in DOMAIN db
    /\ res.out = << >>

\* C20: a row-fetching operation on a table that storage cannot query
\* returns an error and no rows, and does not panic.
C20_QueryFailureReturned ==
    (res # NoRes /\ res.type \notin DOMAIN db) =>
        /\ res.op \in {"GetRowsByWhereClause", "GetSingleRowByReferenceId",
                       "GetSingleRowById"} =>
               ~res.out.panic /\ res.out.err /\ res.out.rows = << >>
        /\ res.op \in {"GetIdToObject", "GetReferenceIdToObject"} =>
               res.out.err /\ res.out.obj = NilMap

----------------------------------------------------------------------------
(* AdministratorBootstrap: the statements of one BecomeAdmin call and their
   outcomes, calls made one after the other *)

BootMaxCalls == 2

\* dbResource.Cruds with one more owned table
BootCruds == AdminCruds \cup {S("note")}

\* crud.model.HasColumn(USER_ACCOUNT_ID_COLUMN), every table taken as owned
BootHasOwnerColumn_All(typeName) == TRUE

\* crud.model.HasColumn(USER_ACCOUNT_ID_COLUMN)
BootHasOwnerColumn(typeName) == HasOwnerColumn(typeName) \/ typeName = S("note")

\* the tables the loop of lines 591-616 updates
BootOwned == {crud \in BootCruds : crud # USER_GROUP_JOIN /\ BootHasOwnerColumn(crud)}

\* the statements after the loop with the sign-in update before the blanket one
BootSequence_SigninFirst == <<"group", "member", "open", "narrow", "signin", "actions">>

\* the statements after the loop, in the order of lines 618-645
BootSequence == <<"group", "member", "open", "narrow", "actions", "signin">>

\* a failed statement ends the call
BootAfter_StopOnFailure(stmt, ok) ==
    IF ok /\ IndexOf(BootSequence, stmt) < Len(BootSequence)
    THEN BootSequence[IndexOf(BootSequence, stmt) + 1] ELSE "return"

\* the position after a statement: its error is logged or dropped and the next
\* statement follows; line 649 follows the last
BootAfter(stmt, ok) ==
    IF IndexOf(BootSequence, stmt) < Len(BootSequence)
    THEN BootSequence[IndexOf(BootSequence, stmt) + 1] ELSE "return"

BootIdle ==
    [pc |-> "idle", userId |-> 0, pending |-> {}, adminUsergroupId |-> 0,
     ran |-> {}, failed |-> {}]

\* the call after a statement that was executed with outcome ok
BootRan(c, stmt, ok) ==
    [c EXCEPT !.ran = @ \cup {stmt}, !.failed = IF ok THEN @ ELSE @ \cup {stmt}]

\* the call after one of the statements that follow the loop
BootAdvance(c, stmt, ok) ==
    IF BootAfter(stmt, ok) = "return" THEN BootIdle
    ELSE [BootRan(c, stmt, ok) EXCEPT !.pc = BootAfter(stmt, ok)]

\* return true at line 649
BootReturn(c, stmt, ok) ==
    IF BootAfter(stmt, ok) = "return"
    THEN [op |-> "BecomeAdmin", userId |-> c.userId, out |-> TRUE,
          ran |-> BootRan(c, stmt, ok).ran, failed |-> BootRan(c, stmt, ok).failed]
    ELSE NoRes

BootInit ==
    /\ db = [t \in BootCruds \cup {USER_ACCOUNT_TABLE_NAME, USERGROUP_TABLE} |->
                CASE t = USER_ACCOUNT_TABLE_NAME ->
                         <<Row(1, S("u1"), 0, 0, S("one")), Row(2, S("u2"), 0, 0, S("two"))>>
                  [] t = USERGROUP_TABLE ->
                         <<Row(1, S("g1"), 0, 0, S("users")),
                           Row(2, S("g2"), 0, 0, S("administrators"))>>
                  [] t = USER_GROUP_JOIN ->
                         <<[JoinRow(1, S("rel") \o FormatInt(1), 0, 1, Bit("Group", "Read"))
                               EXCEPT !.user_account_id = 2]>>
                  [] t = WORLD_TABLE ->
                         <<Row(1, S("w1"), 0, 0, S("todo")),
                           Row(2, S("w2"), 0, 0, <<"todo", "_audit">>)>>
                  [] t = ACTION_TABLE ->
                         <<Row(1, S("a1"), 0, 0, S("signin")),
                           Row(2, S("a2"), 0, 0, S("run"))>>
                  [] t = S("note") ->
                         <<Row(1, S("n1"), 0, 0, << >>),
                           Row(2, S("n2"), 2, Bit("User", "Read"), << >>)>>
                  [] t = S("plain") -> <<Row(1, S("p1"), 0, Bit("Guest", "Read"), << >>)>>]
    /\ res = NoRes
    /\ procs = NoProcs
    /\ call = BootIdle
    /\ hist = [calls |-> 0, kept |-> << >>]

\* BecomeAdmin(userId): the CanBecomeAdmin guard of lines 587-589
BootBegin(userId) ==
    /\ call.pc = "idle"
    /\ hist.calls < BootMaxCalls
    /\ hist' = [calls |-> hist.calls + 1,
                kept |-> [t \in {USER_GROUP_JOIN, S("plain")} |-> db[t]]]
    /\ IF ~CanBecomeAdmin
       THEN /\ res' = [op |-> "BecomeAdmin", userId |-> userId, out |-> FALSE,
                       ran |-> {}, failed |-> {}]
            /\ UNCHANGED call
       ELSE /\ call' = [BootIdle EXCEPT !.pc = "cruds", !.userId = userId,
                                        !.pending = BootCruds]
            /\ res' = NoRes
    /\ UNCHANGED <<db, procs>>

\* one iteration of "for _, crud := range dbResource.Cruds", in any order
BootOwnTable(crud, ok) ==
    /\ call.pc = "cruds"
    /\ crud \in call.pending
    /\ IF crud # USER_GROUP_JOIN /\ BootHasOwnerColumn(crud)
       THEN /\ db' = IF ok
                     THEN UpdateRows(crud, LAMBDA r : TRUE,
                              LAMBDA r : [r EXCEPT !.user_account_id = call.userId,
                                                   !.permission = DEFAULT_PERMISSION])
                     ELSE db
            /\ call' = [BootRan(call, crud[1], ok) EXCEPT
                           !.pending = @ \ {crud},
                           !.pc = IF call.pending = {crud} THEN BootSequence[1] ELSE "cruds"]
       ELSE /\ ok
            /\ call' = [call EXCEPT
                           !.pending = @ \ {crud},
                           !.pc = IF call.pending = {crud} THEN BootSequence[1] ELSE "cruds"]
            /\ UNCHANGED db
    /\ res' = NoRes
    /\ UNCHANGED <<procs, hist>>

\* adminUsergroupId, err := dbResource.UserGroupNameToId("administrators");
\* the error is dropped and the id is then 0
BootFindGroup(ok) ==
    /\ call.pc = "group"
    /\ call' = [BootAdvance(call, "group", ok) EXCEPT
                   !.adminUsergroupId =
                       IF ok THEN UserGroupNameToId(S("administrators")).val ELSE 0]
    /\ res' = BootReturn(call, "group", ok)
    /\ UNCHANGED <<db, procs, hist>>

\* insert into user_account_user_account_id_has_usergroup_usergroup_id
BootInsertMember(ok) ==
    /\ call.pc = "member"
    /\ LET rows == db[USER_GROUP_JOIN]
           row == [JoinRow(NextId(rows), S("rel") \o FormatInt(NextId(rows)),
                           0, call.adminUsergroupId, DEFAULT_PERMISSION)
                       EXCEPT !.user_account_id = call.userId]
       IN  db' = IF ok THEN [db EXCEPT ![USER_GROUP_JOIN] = Append(@, row)] ELSE db
    /\ call' = BootAdvance(call, "member", ok)
    /\ res' = BootReturn(call, "member", ok)
    /\ UNCHANGED <<procs, hist>>

\* update world ... where table_name not like '%_audit'
BootOpenWorld(ok) ==
    /\ call.pc = "open"
    /\ db' = IF ok
             THEN UpdateRows(WORLD_TABLE, LAMBDA r : ~IsAuditName(r.name),
                      LAMBDA r : [r EXCEPT !.permission = DEFAULT_PERMISSION,
                                           !.default_permission = DEFAULT_PERMISSION])
             ELSE db
    /\ call' = BootAdvance(call, "open", ok)
    /\ res' = BootReturn(call, "open", ok)
    /\ UNCHANGED <<procs, hist>>

\* update world ... where table_name like '%_audit'
BootNarrowAudit(ok) ==
    /\ call.pc = "narrow"
    /\ db' = IF ok
             THEN UpdateRows(WORLD_TABLE, LAMBDA r : IsAuditName(r.name),
                      LAMBDA r : [r EXCEPT !.permission = AuditPermission,
                                           !.default_permission = AuditDefaultPermission])
             ELSE db
    /\ call' = BootAdvance(call, "narrow", ok)
    /\ res' = BootReturn(call, "narrow", ok)
    /\ UNCHANGED <<procs, hist>>

\* update action set permission = ?
BootSetActions(ok) ==
    /\ call.pc = "actions"
    /\ db' = IF ok
             THEN UpdateRows(ACTION_TABLE, LAMBDA r : TRUE,
                      LAMBDA r : [r EXCEPT !.permission = ActionPermission])
             ELSE db
    /\ call' = BootAdvance(call, "actions", ok)
    /\ res' = BootReturn(call, "actions", ok)
    /\ UNCHANGED <<procs, hist>>

\* update action set permission = ? where action_name in ('signin')
BootSetSignin(ok) ==
    /\ call.pc = "signin"
    /\ db' = IF ok
             THEN UpdateRows(ACTION_TABLE, LAMBDA r : r.name = S("signin"),
                      LAMBDA r : [r EXCEPT !.permission = SigninPermission])
             ELSE db
    /\ call' = BootAdvance(call, "signin", ok)
    /\ res' = BootReturn(call, "signin", ok)
    /\ UNCHANGED <<procs, hist>>

BootNext ==
    \/ \E userId \in 1..2 : BootBegin(userId)
    \/ \E crud \in BootCruds, ok \in BOOLEAN : BootOwnTable(crud, ok)
    \/ \E ok \in BOOLEAN : BootFindGroup(ok)
    \/ \E ok \in BOOLEAN : BootInsertMember(ok)
    \/ \E ok \in BOOLEAN : BootOpenWorld(ok)
    \/ \E ok \in BOOLEAN : BootNarrowAudit(ok)
    \/ \E ok \in BOOLEAN : BootSetActions(ok)
    \/ \E ok \in BOOLEAN : BootSetSignin(ok)

BootSpec == BootInit /\ [][BootNext]_vars

\* a BecomeAdmin call has returned true
BootReturned == res.op = "BecomeAdmin" /\ res.out = TRUE

\* the statements of one call
BootStatements ==
    {crud[1] : crud \in BootOwned} \cup {BootSequence[k] : k \in 1..Len(BootSequence)}

\* the ownership updates of the call that returned all took effect
BootOwnershipTaken == res.failed \cap {crud[1] : crud \in BootOwned} = {}

\* the rows the join table and the table without owner column had when the
\* call began are as they were
BootKept ==
    \A t \in DOMAIN hist.kept : SubSeq(db[t], 1, Len(hist.kept[t])) = hist.kept[t]

C24_EveryStatementRuns ==
    (res.op = "BecomeAdmin" /\ res.ran # {}) =>
        res.out = TRUE /\ res.ran = BootStatements /\ res.failed \subseteq res.ran

C24_Witness == BootReturned /\ res.failed = BootStatements

\* C25: after a call that returned true, and whose two action updates took
\* effect, every action other than signin has the operator bitmask with no
\* Guest bit, and signin has GuestExecute.
C25_ActionsThenSignin ==
    (BootReturned /\ res.failed \cap {"actions", "signin"} = {}) =>
        \A k \in 1..Len(db[ACTION_TABLE]) :
            LET row == db[ACTION_TABLE][k]
            IN  IF row.name = S("signin")
                THEN HasBit(row.permission, Bit("Guest", "Execute"))
                ELSE /\ row.permission =
                            Bit("User", "Read") + Bit("User", "Execute") + CRUD("Group")
                                + Bit("Group", "Execute") + Bit("Group", "Refer")
                     /\ \A j \in 1..Len(Capabilities) :
                            ~HasBit(row.permission, Bit("Guest", Capabilities[j]))

C25_Witness ==
    /\ BootReturned /\ res.failed = {}
    /\ \E k \in 1..Len(db[ACTION_TABLE]) : db[ACTION_TABLE][k].name = S("signin")
    /\ \E k \in 1..Len(db[ACTION_TABLE]) : db[ACTION_TABLE][k].name # S("signin")

----------------------------------------------------------------------------
(* DeleteMailAccountBox, one storage statement per step *)

MailMaxMails == 2

MAIL_BOX_TABLE == S("mail_box")

MAIL_TABLE == S("mail")

MailBox(id, account, name) == [id |-> id, mail_account_id |-> account, name |-> name]

Mail(id, box) == [id |-> id, mail_box_id |-> box]

\* the box row deleted before its mails
MailOrder_BoxFirst == <<MAIL_BOX_TABLE, MAIL_TABLE>>

\* the tables of the two delete statements, in the order of lines 485-500
MailOrder == <<MAIL_TABLE, MAIL_BOX_TABLE>>

\* d.Cruds["mail_box"].GetAllObjectsWithWhere("mail_box",
\*     squirrel.Eq{"mail_account_id": mailAccountId, "name": mailBoxName})
GetAllObjectsWithWhere(mailAccountId, mailBoxName) ==
    SelectRows(db[MAIL_BOX_TABLE],
               LAMBDA r : r.mail_account_id = mailAccountId /\ r.name = mailBoxName)

\* delete from mail where mail_box_id = ? / delete from mail_box where id = ?
MailDeleteFrom(typeName, boxId) ==
    [db EXCEPT ![typeName] =
        SelectRows(@, LAMBDA r : IF typeName = MAIL_TABLE THEN r.mail_box_id # boxId
                                 ELSE r.id # boxId)]

MailIdle == [pc |-> "idle", box |-> 0]

MailInit ==
    /\ \E n \in 0..MailMaxMails : \E boxes \in [1..n -> {1, 2}] :
          db = [t \in {MAIL_BOX_TABLE, MAIL_TABLE} |->
                   IF t = MAIL_BOX_TABLE
                   THEN <<MailBox(1, 1, S("inbox")), MailBox(2, 1, S("sent")),
                          MailBox(3, 2, S("inbox"))>>
                   ELSE [k \in 1..n |-> Mail(k, boxes[k])]]
    /\ res = NoRes
    /\ procs = NoProcs
    /\ call = MailIdle
    /\ hist = [deleted |-> {}, before |-> << >>]

\* DeleteMailAccountBox(mailAccountId, mailBoxName): the lookup of lines 475-483
MailBegin(mailAccountId, mailBoxName, ok) ==
    /\ call.pc = "idle"
    /\ hist' = [hist EXCEPT !.before = db]
    /\ LET box == GetAllObjectsWithWhere(mailAccountId, mailBoxName)
       IN  IF ~ok \/ Len(box) = 0
           THEN /\ res' = [op |-> "DeleteMailAccountBox", err |-> "mailbox does not exist"]
                /\ UNCHANGED call
           ELSE /\ call' = [pc |-> "first", box |-> box[1].id]
                /\ res' = NoRes
    /\ UNCHANGED <<db, procs>>

\* the delete of lines 485-493; its error is returned
MailDeleteFirst(ok) ==
    /\ call.pc = "first"
    /\ IF ok
       THEN /\ db' = MailDeleteFrom(MailOrder[1], call.box)
            /\ call' = [call EXCEPT !.pc = "second"]
            /\ res' = NoRes
            /\ hist' = IF MailOrder[1] = MAIL_BOX_TABLE
                       THEN [hist EXCEPT !.deleted = @ \cup {call.box}] ELSE hist
       ELSE /\ call' = MailIdle
            /\ res' = [op |-> "DeleteMailAccountBox", err |-> "first"]
            /\ UNCHANGED <<db, hist>>
    /\ UNCHANGED procs

\* the delete of lines 495-502; its error, or nil, is returned
MailDeleteSecond(ok) ==
    /\ call.pc = "second"
    /\ call' = MailIdle
    /\ IF ok
       THEN /\ db' = MailDeleteFrom(MailOrder[2], call.box)
            /\ res' = [op |-> "DeleteMailAccountBox", err |-> "nil"]
            /\ hist' = IF MailOrder[2] = MAIL_BOX_TABLE
                       THEN [hist EXCEPT !.deleted = @ \cup {call.box}] ELSE hist
       ELSE /\ res' = [op |-> "DeleteMailAccountBox", err |-> "second"]
            /\ UNCHANGED <<db, hist>>
    /\ UNCHANGED procs

MailNext ==
    \/ \E mailAccountId \in 1..2, mailBoxName \in {S("inbox"), S("sent")},
          ok \in BOOLEAN : MailBegin(mailAccountId, mailBoxName, ok)
    \/ \E ok \in BOOLEAN : MailDeleteFirst(ok)
    \/ \E ok \in BOOLEAN : MailDeleteSecond(ok)

MailSpec == MailInit /\ [][MailNext]_vars

\* the mails that refer to a box
MailsOf(boxId) == SelectRows(db[MAIL_TABLE], LAMBDA r : r.mail_box_id = boxId)

====
